---- MODULE Spec2Model ----
(***************************************************************************)
(* Route risk evaluation and ranking engine of the maritime logistics      *)
(* orchestrator: route lookup and segmentation (tools/route_calculator.py),*)
(* the traffic propagation walk (tools/maritime_traffic.py) and the        *)
(* analysis, scoring and ranking of candidate routes                       *)
(* (agents/forecast_agent.py), with the weather and news simulators they   *)
(* call, the session endpoints of the web application (app.py) and the     *)
(* feature flags read at start-up (config/settings.py, main.py).           *)
(*                                                                         *)
(* Number representation.  Python floats are modelled by exact values:     *)
(*   - distances are whole nautical miles;                                 *)
(*   - times are hundredths of an hour (the code rounds them to 2 places); *)
(*   - speeds in the traffic walk are tenths of a knot (the code rounds    *)
(*     the speed reduction to 1 place);                                    *)
(*   - scores and cumulative hours are reduced fractions <<num, den>>.     *)
(* Latitudes are whole arc-minutes and all waypoints lie on one meridian,  *)
(* where the great-circle distance is 1 nm per arc-minute of latitude.     *)
(***************************************************************************)
EXTENDS Integers, Sequences, FiniteSets, TLC

VARIABLES
    pc,                 \* position of the running call
    data,               \* reference data: rows of port_to_port_routes.csv
    request,            \* arguments of analyze_routes
    routes,             \* list returned by find_routes_between_ports
    supplied,           \* argument of _score_routes as it was at call time
    route_analyses,     \* the list object built by analyze_routes / scored in place
    result,             \* value returned by analyze_routes
    route_segments,     \* argument of get_traffic_forecast
    vessel_speed_knots, \* argument of get_traffic_forecast
    cumulative_hours,   \* local of get_traffic_forecast
    traffic_forecast,   \* list built by get_traffic_forecast
    calls,              \* tools called so far by the running request, in order
    extended_forecast,  \* list built by get_extended_forecast
    all_news,           \* per-segment news built by analyze_route_news
    seed,               \* the draws that the seeded random source delivers
    reports,            \* reports returned by the successive seeded runs
    active_sessions,    \* app.py: the dictionary of sessions, keyed by session id
    response,           \* app.py: the last request served and the response to it
    clock,              \* app.py: datetime.now() at the last analysis, in ticks
    environ,            \* the process environment after load_dotenv()
    settings,           \* config/settings.py: the values computed at import
    resolver            \* main.py: what MaritimeExceptionResolver.__init__ built

\* the variables of the web application and of its start-up
web == <<active_sessions, response, clock, environ, settings, resolver>>

\* the variables of the route evaluation
evaluation == <<data, request, routes, supplied, route_analyses, result,
                route_segments, vessel_speed_knots, cumulative_hours, traffic_forecast,
                calls, extended_forecast, all_news, seed, reports>>

vars == <<pc, evaluation, web>>

\* the web application is not running
WebIdle ==
    /\ active_sessions = <<>>
    /\ response = <<>>
    /\ clock = 0
    /\ environ = <<>>
    /\ settings = <<>>
    /\ resolver = <<>>

\* no route evaluation is running
EvaluationIdle ==
    /\ data = [routes |-> <<>>]
    /\ request = [origin_port |-> "", destination_port |-> "", carrier_id |-> ""]
    /\ routes = <<>>
    /\ supplied = <<>>
    /\ route_analyses = <<>>
    /\ result = [status |-> "none"]
    /\ route_segments = <<>>
    /\ vessel_speed_knots = 0
    /\ cumulative_hours = <<0, 1>>
    /\ traffic_forecast = <<>>
    /\ calls = <<>>
    /\ extended_forecast = <<>>
    /\ all_news = <<>>
    /\ seed = <<>>
    /\ reports = <<>>

----------------------------------------------------------------------------
(* Exact arithmetic *)

Abs(x) == IF x < 0 THEN -x ELSE x

Max(a, b) == IF a >= b THEN a ELSE b

Min(a, b) == IF a <= b THEN a ELSE b

RECURSIVE GCD(_, _)
GCD(a, b) == IF b = 0 THEN a ELSE GCD(b, a % b)

\* the fraction n/d (d > 0) in lowest terms
Frac(n, d) ==
    LET g == GCD(Abs(n), d)
    IN  IF g = 0 THEN <<0, 1>> ELSE <<n \div g, d \div g>>

FInt(n) == <<n, 1>>

FAdd(x, y) == Frac(x[1] * y[2] + y[1] * x[2], x[2] * y[2])

FSub(x, y) == Frac(x[1] * y[2] - y[1] * x[2], x[2] * y[2])

\* comparison over the least common denominator
FCmpL(x, y) == (x[2] \div GCD(x[2], y[2])) * y[2]

FLess(x, y) == x[1] * (FCmpL(x, y) \div x[2]) < y[1] * (FCmpL(x, y) \div y[2])

FLeq(x, y) == ~FLess(y, x)

FMax(x, y) == IF FLess(x, y) THEN y ELSE x

\* Python round(): nearest integer to n/d (d > 0, n >= 0), halves to even
RoundDiv(n, d) ==
    LET q == n \div d
        r == n % d
    IN  IF 2 * r < d THEN q
        ELSE IF 2 * r > d THEN q + 1
        ELSE IF q % 2 = 0 THEN q ELSE q + 1

RECURSIVE SumSeq(_)
SumSeq(s) == IF s = <<>> THEN 0 ELSE Head(s) + SumSeq(Tail(s))

RECURSIVE MinOf(_)
MinOf(S) ==
    LET x == CHOOSE y \in S : TRUE
    IN  IF S = {x} THEN x ELSE Min(x, MinOf(S \ {x}))

----------------------------------------------------------------------------
(* Values shared by the operations *)

\* An optional value (Python None, pandas NaN) is the empty tuple; a present
\* value v is the one-element tuple <<v>>.
None == <<>>

Some(v) == <<v>>

Truthy(x) == x # None

----------------------------------------------------------------------------
(* tools/route_calculator.py: calculate_route_time *)

\* times are returned in hundredths of an hour
calculate_route_time(route, speed, weather_impact, traffic_impact) ==
    LET d == route.total_distance_nm
        \* wind_factor = average_wind_speed / 100, kept in thousandths
        wind_factor == IF Truthy(weather_impact)
                       THEN 10 * weather_impact[1].average_wind_speed ELSE 0
        \* congestion_factor 0.1 / 0.05, kept in thousandths
        congestion_factor == IF Truthy(traffic_impact)
                             THEN (IF traffic_impact[1].congestion_level = "High"
                                   THEN 100 ELSE 50)
                             ELSE 0
    IN  [ base_time_hours     |-> RoundDiv(100 * d, speed),
          weather_delay_hours |-> RoundDiv(d * wind_factor, 10 * speed),
          traffic_delay_hours |-> RoundDiv(d * congestion_factor, 10 * speed),
          total_time_hours    |->
              RoundDiv(d * (1000 + wind_factor + congestion_factor), 10 * speed) ]

----------------------------------------------------------------------------
(* agents/forecast_agent.py: _analyze_single_route *)

CountIn(s, summary, field, S) ==
    Cardinality({i \in DOMAIN s : s[i][summary][field] \in S})

\* variant: two affected segments already count as High
OverallLevelFromTwo(n) == IF n >= 2 THEN "High" ELSE IF n > 0 THEN "Medium" ELSE "Low"

OverallLevel(n) == IF n > 2 THEN "High" ELSE IF n > 0 THEN "Medium" ELSE "Low"

\* weather_forecast, traffic_forecast: one entry per segment, as returned by
\* get_extended_forecast and get_traffic_forecast; news_analysis as returned
\* by analyze_route_news
_analyze_single_route(route, vessel_speed, weather_forecast, traffic_fc, news_analysis) ==
    LET total_weather_risk == CountIn(weather_forecast, "segment_summary", "risk_level", {"Medium", "High"})
        total_traffic_congestion ==
            CountIn(traffic_fc, "traffic_summary", "congestion_level", {"Medium", "High"})
        time_calculation ==
            calculate_route_time(
                route, vessel_speed,
                IF total_weather_risk > 1 THEN Some([average_wind_speed |-> 15]) ELSE None,
                IF total_traffic_congestion > 1 THEN Some([congestion_level |-> "High"]) ELSE None)
    IN  [ route_id         |-> route.route_id,
          route_type       |-> route.route_type,
          distance_nm      |-> route.total_distance_nm,
          segments         |-> Len(route.segments),
          time_calculation |-> time_calculation,
          weather_analysis |-> [ risk_segments    |-> total_weather_risk,
                                 overall_risk     |-> OverallLevel(total_weather_risk),
                                 forecast_summary |-> weather_forecast ],
          traffic_analysis |-> [ congested_segments |-> total_traffic_congestion,
                                 overall_congestion |-> OverallLevel(total_traffic_congestion),
                                 traffic_summary    |-> traffic_fc ],
          news_analysis    |-> news_analysis ]

----------------------------------------------------------------------------
(* agents/forecast_agent.py: _score_routes *)

\* variant: the first candidate taken as the baseline
base_distance_first(ra) == ra[1].distance_nm

base_distance(ra) == MinOf({ra[i].distance_nm : i \in DOMAIN ra})

base_time(ra) == MinOf({ra[i].time_calculation.total_time_hours : i \in DOMAIN ra})

distance_penalty(a, ra) ==
    Frac((a.distance_nm - base_distance(ra)) * 10, base_distance(ra))

\* variant: the time penalty weighted like the distance penalty
time_penalty_weight10(a, ra) ==
    Frac((a.time_calculation.total_time_hours - base_time(ra)) * 10, base_time(ra))

time_penalty(a, ra) ==
    Frac((a.time_calculation.total_time_hours - base_time(ra)) * 15, base_time(ra))

weather_penalty(a) ==
    IF a.weather_analysis.overall_risk = "High" THEN 20
    ELSE IF a.weather_analysis.overall_risk = "Medium" THEN 10 ELSE 0

\* variant: Medium congestion charged like Medium weather risk
traffic_penalty_medium10(a) ==
    IF a.traffic_analysis.overall_congestion = "High" THEN 15
    ELSE IF a.traffic_analysis.overall_congestion = "Medium" THEN 10 ELSE 0

traffic_penalty(a) ==
    IF a.traffic_analysis.overall_congestion = "High" THEN 15
    ELSE IF a.traffic_analysis.overall_congestion = "Medium" THEN 7 ELSE 0

event_penalty(a) ==
    IF a.news_analysis.overall_risk_assessment = "Critical" THEN 30
    ELSE IF a.news_analysis.overall_risk_assessment = "High" THEN 20
    ELSE IF a.news_analysis.overall_risk_assessment = "Medium" THEN 10 ELSE 0

\* score before the final max(0, score)
RawScore(a, ra) ==
    FSub(FSub(FInt(100 - weather_penalty(a) - traffic_penalty(a) - event_penalty(a)),
              distance_penalty(a, ra)),
         time_penalty(a, ra))

\* variant: the final max(0, score) left out
route_score_unclamped(a, ra) == RawScore(a, ra)

route_score(a, ra) == FMax(FInt(0), RawScore(a, ra))

\* variant: an element is placed before the elements of equal score
RECURSIVE InsertDescBeforeEqual(_, _)
InsertDescBeforeEqual(x, s) ==
    IF s = <<>> THEN <<x>>
    ELSE IF FLeq(Head(s).route_score, x.route_score) THEN <<x>> \o s
    ELSE <<Head(s)>> \o InsertDescBeforeEqual(x, Tail(s))

\* list.sort(key=route_score, reverse=True): stable, equal keys keep their order
RECURSIVE InsertDesc(_, _)
InsertDesc(x, s) ==
    IF s = <<>> THEN <<x>>
    ELSE IF FLess(Head(s).route_score, x.route_score) THEN <<x>> \o s
    ELSE <<Head(s)>> \o InsertDesc(x, Tail(s))

RECURSIVE SortByScore(_)
SortByScore(s) ==
    IF s = <<>> THEN <<>>
    ELSE InsertDesc(s[Len(s)], SortByScore(SubSeq(s, 1, Len(s) - 1)))

_score_routes(ra) ==
    SortByScore([i \in DOMAIN ra |-> ("route_score" :> route_score(ra[i], ra)) @@ ra[i]])

----------------------------------------------------------------------------
(* tools/route_calculator.py: reference data and find_routes_between_ports *)

\* maritime_waypoint_grid.csv; latitudes in arc-minutes on the meridian 0
WaypointGrid ==
    [ WP_001 |-> [Waypoint_Type |-> "Port", Latitude |->  2442, Longitude |-> 0, Port_Name |-> "New York"],
      WP_002 |-> [Waypoint_Type |-> "Port", Latitude |->  2040, Longitude |-> 0, Port_Name |-> "Los Angeles"],
      WP_003 |-> [Waypoint_Type |-> "Port", Latitude |->  3090, Longitude |-> 0, Port_Name |-> "London"],
      WP_004 |-> [Waypoint_Type |-> "Port", Latitude |-> -2034, Longitude |-> 0, Port_Name |-> "Cape Town"],
      WP_005 |-> [Waypoint_Type |-> "Port", Latitude |->  2142, Longitude |-> 0, Port_Name |-> "Tokyo"] ]

\* great-circle distance in nautical miles of two points of one meridian
haversine_distance(lat1, lon1, lat2, lon2) == Abs(lat2 - lat1)

\* lines 140-159: the waypoint lookup loop.  acc is route_waypoints so far, i
\* the enumerate() index.  A found id at index i > 0 reads route_waypoints[i-1],
\* which raises IndexError when fewer than i entries were collected before it.
RECURSIVE LookupWaypoints(_, _, _)
LookupWaypoints(ids, i, acc) ==
    IF i >= Len(ids) THEN [raised |-> FALSE, value |-> acc]
    ELSE LET wp_id == ids[i + 1]
         IN  IF wp_id \notin DOMAIN WaypointGrid
             THEN LookupWaypoints(ids, i + 1, acc)
             ELSE LET wp == WaypointGrid[wp_id]
                      acc2 == Append(acc, [ waypoint_id |-> <<wp_id>>,
                                            type        |-> wp.Waypoint_Type,
                                            latitude    |-> wp.Latitude,
                                            longitude   |-> wp.Longitude,
                                            port_name   |-> Some(wp.Port_Name) ])
                  IN  IF i > 0 /\ i - 1 >= Len(acc2)
                      THEN [raised |-> TRUE, value |-> "list index out of range"]
                      ELSE LookupWaypoints(ids, i + 1, acc2)

\* lines 176-190: the points inserted between start and end
Interpolated(start, end, num_points) ==
    [ j \in 1..num_points |->
        [ waypoint_id |-> start.waypoint_id \o <<"int", j>>,
          type        |-> "Intermediate",
          latitude    |-> start.latitude
                            + (j * (end.latitude - start.latitude)) \div (num_points + 1),
          longitude   |-> start.longitude
                            + (j * (end.longitude - start.longitude)) \div (num_points + 1),
          port_name   |-> None ] ]

\* lines 166-194: enrichment of a route with 2 or 3 waypoints
RECURSIVE EnrichFrom(_, _, _)
EnrichFrom(wps, i, acc) ==
    IF i >= Len(wps) THEN acc
    ELSE EnrichFrom(wps, i + 1,
                    acc \o Interpolated(wps[i], wps[i + 1], Max(1, 4 - Len(wps)))
                        \o <<wps[i + 1]>>)

\* variant: only a route of two waypoints is enriched
EnrichPairsOnly(wps) == IF Len(wps) < 3 THEN EnrichFrom(wps, 1, <<wps[1]>>) ELSE wps

Enrich(wps) == IF Len(wps) < 4 THEN EnrichFrom(wps, 1, <<wps[1]>>) ELSE wps

\* lines 204-211: distance along the waypoints of one segment
RECURSIVE PathDistance(_)
PathDistance(wps) ==
    IF Len(wps) < 2 THEN 0
    ELSE haversine_distance(wps[1].latitude, wps[1].longitude,
                            wps[2].latitude, wps[2].longitude)
         + PathDistance(Tail(wps))

\* variant: the slice size is rounded up
points_per_segment_ceil(wps) == Max(1, (Len(wps) + 3) \div 4)

points_per_segment(wps) == Max(1, Len(wps) \div 4)

\* variant: each slice also takes the first waypoint of the next slice
RECURSIVE SegmentationSharedBoundary(_, _, _, _)
SegmentationSharedBoundary(route_id, wps, i, acc) ==
    IF i >= Len(wps) THEN acc
    ELSE LET segment_waypoints ==
                 SubSeq(wps, i + 1, Min(Len(wps), i + points_per_segment(wps) + 1))
         IN  SegmentationSharedBoundary(route_id, wps, i + points_per_segment(wps),
                 Append(acc,
                     [ segment_id  |-> <<route_id, "seg", Len(acc) + 1>>,
                       waypoints   |-> segment_waypoints,
                       coordinates |-> [k \in DOMAIN segment_waypoints |->
                                           << segment_waypoints[k].latitude,
                                              segment_waypoints[k].longitude >>],
                       distance_nm |-> PathDistance(segment_waypoints) ]))

\* lines 196-218: slices wps[i:i+points_per_segment] for i = 0, pps, 2 pps, ...
RECURSIVE Segmentation(_, _, _, _)
Segmentation(route_id, wps, i, acc) ==
    IF i >= Len(wps) THEN acc
    ELSE LET segment_waypoints ==
                 SubSeq(wps, i + 1, Min(Len(wps), i + points_per_segment(wps)))
         IN  Segmentation(route_id, wps, i + points_per_segment(wps),
                 Append(acc,
                     [ segment_id  |-> <<route_id, "seg", Len(acc) + 1>>,
                       waypoints   |-> segment_waypoints,
                       coordinates |-> [k \in DOMAIN segment_waypoints |->
                                           << segment_waypoints[k].latitude,
                                              segment_waypoints[k].longitude >>],
                       distance_nm |-> PathDistance(segment_waypoints) ]))

\* lines 196-234: the entry appended to route_details for one usable route
RouteDetail(row, route_waypoints) ==
    LET segments == Segmentation(row.Route_ID, route_waypoints, 0, <<>>)
    IN  [ route_id          |-> row.Route_ID,
          route_type        |-> row.Route_Type,
          total_distance_nm |-> IF row.Distance_NM # None THEN row.Distance_NM[1]
                                ELSE SumSeq([k \in DOMAIN segments |-> segments[k].distance_nm]),
          waypoint_count    |-> Len(route_waypoints),
          segments          |-> segments,
          waypoints         |-> route_waypoints ]

\* variant: a route is skipped only when it has no waypoint at all
RECURSIVE RouteDetailsKeepSingle(_, _)
RouteDetailsKeepSingle(rows, acc) ==
    IF rows = <<>> THEN [raised |-> FALSE, value |-> acc]
    ELSE LET row == Head(rows)
             waypoint_ids == IF row.Waypoint_IDs # None THEN row.Waypoint_IDs[1] ELSE <<>>
             looked == LookupWaypoints(waypoint_ids, 0, <<>>)
         IN  IF looked.raised THEN looked
             ELSE IF Len(looked.value) < 1 THEN RouteDetailsKeepSingle(Tail(rows), acc)
             ELSE RouteDetailsKeepSingle(Tail(rows),
                               Append(acc, RouteDetail(row, Enrich(looked.value))))

\* lines 131-236: the loop over the matching rows
RECURSIVE RouteDetails(_, _)
RouteDetails(rows, acc) ==
    IF rows = <<>> THEN [raised |-> FALSE, value |-> acc]
    ELSE LET row == Head(rows)
             waypoint_ids == IF row.Waypoint_IDs # None THEN row.Waypoint_IDs[1] ELSE <<>>
             looked == LookupWaypoints(waypoint_ids, 0, <<>>)
         IN  IF looked.raised THEN looked
             ELSE IF Len(looked.value) < 2 THEN RouteDetails(Tail(rows), acc)
             ELSE RouteDetails(Tail(rows),
                               Append(acc, RouteDetail(row, Enrich(looked.value))))

find_routes_between_ports(origin_port, destination_port, tables) ==
    RouteDetails(SelectSeq(tables.routes,
                           LAMBDA r : r.Origin_Port = origin_port
                                      /\ r.Destination_Port = destination_port),
                 <<>>)

\* Table1_Carrier_Route_Schedule.csv (lines 65-72) and get_carrier_info
CarrierTable ==
    [ CR_0001 |-> [CARRIER_NAME |-> "Ocean Express",     AVG_SPEED_KNOTS |-> 22],
      CR_0002 |-> [CARRIER_NAME |-> "Global Maritime",   AVG_SPEED_KNOTS |-> 18],
      CR_0003 |-> [CARRIER_NAME |-> "Sea Voyager",       AVG_SPEED_KNOTS |-> 20],
      CR_0009 |-> [CARRIER_NAME |-> "Atlantic Shipping", AVG_SPEED_KNOTS |-> 24] ]

\* variant: an unknown carrier is given a default speed
get_carrier_info_default(carrier_id) ==
    IF carrier_id \notin DOMAIN CarrierTable
    THEN Some([ carrier_id |-> carrier_id, carrier_name |-> "Unknown",
                avg_speed_knots |-> 20 ])
    ELSE Some([ carrier_id      |-> carrier_id,
                carrier_name    |-> CarrierTable[carrier_id].CARRIER_NAME,
                avg_speed_knots |-> CarrierTable[carrier_id].AVG_SPEED_KNOTS ])

get_carrier_info(carrier_id) ==
    IF carrier_id \notin DOMAIN CarrierTable THEN None
    ELSE Some([ carrier_id      |-> carrier_id,
                carrier_name    |-> CarrierTable[carrier_id].CARRIER_NAME,
                avg_speed_knots |-> CarrierTable[carrier_id].AVG_SPEED_KNOTS ])

----------------------------------------------------------------------------
(* agents/news_analyzer_agent.py: the verdict of analyze_route_news *)

\* variant: two High events already give High
analyze_route_news_from_two(severities) ==
    LET critical_events == {i \in DOMAIN severities : severities[i] = "Critical"}
        high_events     == {i \in DOMAIN severities : severities[i] = "High"}
    IN  [ total_events |-> Len(severities),
          overall_risk_assessment |->
              IF critical_events # {} THEN "Critical"
              ELSE IF Cardinality(high_events) >= 2 THEN "High"
              ELSE IF high_events # {} THEN "Medium"
              ELSE "Low" ]

\* severities: the severity of every generated event of the route, in order
analyze_route_news(severities) ==
    LET critical_events == {i \in DOMAIN severities : severities[i] = "Critical"}
        high_events     == {i \in DOMAIN severities : severities[i] = "High"}
    IN  [ total_events |-> Len(severities),
          overall_risk_assessment |->
              IF critical_events # {} THEN "Critical"
              ELSE IF Cardinality(high_events) > 2 THEN "High"
              ELSE IF high_events # {} THEN "Medium"
              ELSE "Low" ]

----------------------------------------------------------------------------
(* tools/weather_forecast.py: get_weather_forecast *)

\* lines 48-56, in tenths
severity_factor(condition) ==
    IF condition = "Stormy" THEN 25
    ELSE IF condition = "Heavy Rain" THEN 20
    ELSE IF condition = "Fog" THEN 15 ELSE 10

\* lines 58-85: the forecast of one coordinate.  draw holds the outcomes of
\* random.choice(weather_conditions) and of the uniform draws of the wind
\* (tenths of a knot) and of the waves (tenths of a metre); the fields that
\* the evaluation never reads are left out.
PointForecast(coordinate, forecast_date, draw) ==
    LET wind == RoundDiv(draw.wind * severity_factor(draw.condition), 10)
        wave == RoundDiv(draw.waves * severity_factor(draw.condition), 10)
    IN  [ location  |-> coordinate,
          date      |-> forecast_date,
          condition |-> draw.condition,
          metrics   |-> [wind_speed_knots |-> wind, wave_height_meters |-> wave],
          warnings  |-> (IF wind > 400 THEN <<"High wind warning">> ELSE <<>>)
                        \o (IF wave > 50 THEN <<"High seas warning">> ELSE <<>>)
                        \o (IF draw.condition = "Stormy"
                            THEN <<"Storm warning - consider route diversion">> ELSE <<>>) ]

\* lines 91-95
risk_level(wind_sum, wave_sum, n) ==
    IF wind_sum > 350 * n \/ wave_sum > 40 * n THEN "High"
    ELSE IF wind_sum > 250 * n \/ wave_sum > 30 * n THEN "Medium" ELSE "Low"

\* the conditions that occur most often among the forecasts
Modes(forecasts) ==
    LET count(c) == Cardinality({k \in DOMAIN forecasts : forecasts[k].condition = c})
    IN  { forecasts[k].condition : k \in
            {j \in DOMAIN forecasts :
                \A i \in DOMAIN forecasts :
                    count(forecasts[i].condition) <= count(forecasts[j].condition)} }

\* lines 103-104: max(set(conditions), key=conditions.count) returns the
\* first condition of maximal count in the iteration order of the set; the
\* order of a set of strings depends on the string hashes, which every
\* interpreter process salts anew, so any of the most frequent conditions can
\* be the result.
PredominantChoices(forecasts) ==
    IF forecasts = <<>> THEN {"Unknown"} ELSE Modes(forecasts)

\* draws: one draw per coordinate; predominant: the outcome of line 103
get_weather_forecast(coordinates, forecast_date, segment_id, draws, predominant) ==
    LET forecasts == [k \in DOMAIN coordinates |->
                         PointForecast(coordinates[k], forecast_date, draws[k])]
        n == Len(forecasts)
        wind_sum == SumSeq([k \in DOMAIN forecasts |-> forecasts[k].metrics.wind_speed_knots])
        wave_sum == SumSeq([k \in DOMAIN forecasts |-> forecasts[k].metrics.wave_height_meters])
    IN  [ segment_id      |-> segment_id,
          forecast_date   |-> forecast_date,
          points_analyzed |-> Len(coordinates),
          forecasts       |-> forecasts,
          segment_summary |->
              [ predominant_condition |-> predominant,
                average_wind_speed    |-> IF n = 0 THEN 0 ELSE RoundDiv(wind_sum, n),
                average_wave_height   |-> IF n = 0 THEN 0 ELSE RoundDiv(wave_sum, n),
                risk_level            |-> IF n = 0 THEN "Low"
                                          ELSE risk_level(wind_sum, wave_sum, n) ] ]

----------------------------------------------------------------------------
(* tools/maritime_traffic.py: analyze_maritime_traffic *)

\* lines 34-42: the average latitude (arc-minutes) lies in a high-traffic band
is_major_lane(coordinates) ==
    LET lat_sum == SumSeq([k \in DOMAIN coordinates |-> coordinates[k][1]])
        n == Len(coordinates)
    IN  \/ (-600 * n < lat_sum /\ lat_sum < 600 * n)
        \/ (1800 * n < lat_sum /\ lat_sum < 2400 * n)
        \/ (-2100 * n < lat_sum /\ lat_sum < -1500 * n)

base_traffic(coordinates) == IF is_major_lane(coordinates) THEN 50 ELSE 20

\* variant: the thresholds belong to the higher level
congestion_of_inclusive(total_vessels) ==
    IF total_vessels >= 60 THEN "High"
    ELSE IF total_vessels >= 40 THEN "Medium" ELSE "Low"

congestion_of(total_vessels) ==
    IF total_vessels > 60 THEN "High"
    ELSE IF total_vessels > 40 THEN "Medium" ELSE "Low"

\* lines 73-78: values of round(random.uniform(..), 1), in tenths of a knot
ReductionChoices(congestion_level) ==
    IF congestion_level = "High" THEN {20, 50}
    ELSE IF congestion_level = "Medium" THEN {5, 20}
    ELSE {0}

\* rand_vessels is the outcome of random.randint(-10, 20), reduction the rounded
\* outcome of the speed-reduction draw.  The division by len(coordinates)
\* raises ZeroDivisionError on an empty coordinate list.
analyze_maritime_traffic(segment_id, coordinates, analysis_date, rand_vessels, reduction) ==
    IF coordinates = <<>> THEN [raised |-> TRUE, value |-> "division by zero"]
    ELSE
    LET total_vessels == base_traffic(coordinates) + rand_vessels
        congestion_level == congestion_of(total_vessels)
        n == Len(coordinates)
        \* traffic_density = total_vessels / (n * 10)
        collision_risk ==
            IF total_vessels > 8 * n * 10 THEN "High"
            ELSE IF total_vessels > 5 * n * 10 /\ congestion_level = "High" THEN "Medium"
            ELSE "Low"
    IN  [ raised |-> FALSE,
          value  |->
            [ segment_id            |-> segment_id,
              analysis_date         |-> analysis_date,
              coordinates_analyzed  |-> n,
              traffic_summary |->
                  [ total_vessels_24h |-> total_vessels,
                    congestion_level  |-> congestion_level,
                    traffic_density   |-> RoundDiv(10 * total_vessels, n),
                    average_speed_reduction_knots |-> reduction ],
              navigation_impact |-> [ collision_risk |-> collision_risk ],
              alerts |-> <<>> ] ]

----------------------------------------------------------------------------
(* tools/maritime_traffic.py: get_traffic_forecast *)

\* segment.get("distance_nm", 100)
segment_distance(segment) ==
    IF "distance_nm" \in DOMAIN segment THEN segment.distance_nm ELSE 100

\* variant: a floor of 5 knots
effective_speed_low_floor(speed, speed_reduction) == Max(10 * speed - speed_reduction, 50)

\* line 180, in tenths of a knot: max(vessel_speed_knots - speed_reduction, 10)
effective_speed(speed, speed_reduction) == Max(10 * speed - speed_reduction, 100)

\* variant: the elapsed time of the segment replaces the running total
next_cumulative_hours_overwrite(hours, distance, speed10) == Frac(10 * distance, speed10)

\* lines 187-189: cumulative_hours += segment_distance / effective_speed
next_cumulative_hours(hours, distance, speed10) ==
    FAdd(hours, Frac(10 * distance, speed10))

\* line 166 and 172: the day of segment_date, counted from the departure day
analysis_day(hours) == hours[1] \div (hours[2] * 24)

\* lines 160-191 as one call: draws[k] holds the outcome of
\* random.randint(-10, 20) and the rounded speed reduction for segment k
RECURSIVE TrafficForecastFrom(_, _, _, _, _)
TrafficForecastFrom(segments, speed, draws, hours, acc) ==
    IF Len(acc) = Len(segments) THEN [raised |-> FALSE, value |-> acc]
    ELSE LET segment == segments[Len(acc) + 1]
             draw == draws[Len(acc) + 1]
             traffic == analyze_maritime_traffic(segment.segment_id, segment.coordinates,
                                                 analysis_day(hours),
                                                 draw.rand_vessels, draw.reduction)
         IN  IF traffic.raised THEN traffic
             ELSE LET speed10 == effective_speed(
                          speed, traffic.value.traffic_summary.average_speed_reduction_knots)
                  IN  TrafficForecastFrom(
                          segments, speed, draws,
                          next_cumulative_hours(hours, segment_distance(segment), speed10),
                          Append(acc, [ hours_from_departure  |-> hours,
                                        effective_speed_knots |-> speed10 ] @@ traffic.value))

get_traffic_forecast(segments, speed, draws) ==
    TrafficForecastFrom(segments, speed, draws, FInt(0), <<>>)

----------------------------------------------------------------------------
(* tools/weather_forecast.py: get_extended_forecast *)

\* line 136: cumulative_distance / vessel_speed_knots if vessel_speed_knots > 0 else 0
hours_to_segment(cumulative_distance, speed) ==
    IF speed > 0 THEN Frac(cumulative_distance, speed) ELSE FInt(0)

\* lines 131-152: draws[k] holds the draws of the coordinates of segment k and
\* the outcome of line 103 for it; cumulative_distance is whole nautical
\* miles, the recorded hours_from_departure is in tenths of an hour
RECURSIVE ExtendedForecastFrom(_, _, _, _, _)
ExtendedForecastFrom(segments, speed, draws, cumulative_distance, acc) ==
    IF Len(acc) = Len(segments) THEN acc
    ELSE LET segment == segments[Len(acc) + 1]
             draw == draws[Len(acc) + 1]
             hours == hours_to_segment(cumulative_distance, speed)
             forecast == get_weather_forecast(segment.coordinates, analysis_day(hours),
                                              segment.segment_id, draw.points,
                                              draw.predominant)
         IN  ExtendedForecastFrom(
                 segments, speed, draws,
                 cumulative_distance + segment_distance(segment),
                 Append(acc, [ hours_from_departure |->
                                   RoundDiv(10 * hours[1], hours[2]) ] @@ forecast))

get_extended_forecast(segments, speed, draws) ==
    ExtendedForecastFrom(segments, speed, draws, 0, <<>>)

----------------------------------------------------------------------------
(* agents/news_analyzer_agent.py: the walk of analyze_route_news *)

\* lines 226-250: severities[k] holds the severities of the events generated
\* for segment k; the entry of a segment keeps what its news items share
RECURSIVE RouteNewsFrom(_, _, _, _, _)
RouteNewsFrom(segments, speed, severities, hours, acc) ==
    IF Len(acc) = Len(segments) THEN acc
    ELSE LET segment == segments[Len(acc) + 1]
         IN  RouteNewsFrom(
                 segments, speed, severities,
                 FAdd(hours, Frac(segment_distance(segment), speed)),
                 Append(acc, [ segment_id           |-> segment.segment_id,
                               analysis_date        |-> analysis_day(hours),
                               hours_from_departure |-> hours,
                               severities           |-> severities[Len(acc) + 1] ]))

route_news(segments, speed, severities) ==
    RouteNewsFrom(segments, speed, severities, FInt(0), <<>>)

----------------------------------------------------------------------------
(* agents/forecast_agent.py: _generate_recommendations and _compare_routes *)

_compare_routes(best, alternative) ==
    [ distance_difference_nm |-> alternative.distance_nm - best.distance_nm,
      time_difference_hours  |-> alternative.time_calculation.total_time_hours
                                     - best.time_calculation.total_time_hours,
      score_difference       |-> FSub(alternative.route_score, best.route_score) ]

\* variant: every route after the best one is an alternative
alternative_routes_all(scored_routes) ==
    IF Len(scored_routes) > 1
    THEN SubSeq(scored_routes, 2, Len(scored_routes))
    ELSE <<>>

\* scored_routes[1:3]
alternative_routes(scored_routes) ==
    IF Len(scored_routes) > 1
    THEN SubSeq(scored_routes, 2, Min(3, Len(scored_routes)))
    ELSE <<>>

_generate_recommendations(scored_routes) ==
    IF scored_routes = <<>> THEN [error |-> "No routes to recommend"]
    ELSE LET best_route == scored_routes[1]
             alternatives == alternative_routes(scored_routes)
         IN  [ best_route |-> [ route_id       |-> best_route.route_id,
                                score          |-> best_route.route_score,
                                distance_nm    |-> best_route.distance_nm,
                                estimated_time |-> best_route.time_calculation ],
               alternative_routes |->
                   [ i \in DOMAIN alternatives |->
                       [ rank           |-> i + 1,
                         route_id       |-> alternatives[i].route_id,
                         score          |-> alternatives[i].route_score,
                         distance_nm    |-> alternatives[i].distance_nm,
                         estimated_time |-> alternatives[i].time_calculation,
                         comparison_to_best |->
                             _compare_routes(best_route, alternatives[i]) ] ] ]

----------------------------------------------------------------------------
(* Exceptions raised below analyze_routes *)

DaysInMonth(year, month) ==
    IF month = 2
    THEN (IF year % 4 = 0 /\ (year % 100 # 0 \/ year % 400 = 0) THEN 29 ELSE 28)
    ELSE IF month \in {4, 6, 9, 11} THEN 30 ELSE 31

\* datetime.strptime(departure_date, "%Y-%m-%d") at the head of
\* get_extended_forecast.  A date string is kept as <<year, month, day>>;
\* the format admits months 1..12 and days 1..31, and a day that the month
\* does not have raises ValueError when the datetime is built.
strptime(date) ==
    IF date[2] \notin 1..12 \/ date[3] \notin 1..31
    THEN [raised |-> TRUE, value |-> "time data does not match format '%Y-%m-%d'"]
    ELSE IF date[3] > DaysInMonth(date[1], date[2])
    THEN [raised |-> TRUE, value |-> "day is out of range for month"]
    ELSE [raised |-> FALSE, value |-> date]

\* text of a ZeroDivisionError: int / int, or a division with a float operand
ZeroDivisionMessages == {"division by zero", "float division by zero"}

\* calculate_route_time line 279 divides the total distance by the total
\* time: for a route of total distance 0 that is 0 / 0.0, which raises
\* ZeroDivisionError when the speed is a Python number and yields nan (no
\* exception) when the speed is a numpy scalar taken from the carrier table.
route_time_may_raise(route) == route.total_distance_nm = 0

\* _score_routes lines 254-255: (distance - base_distance) / base_distance
\* raises ZeroDivisionError for the candidate of distance 0 when the shortest
\* candidate has distance 0
score_raises(ra) == base_distance(ra) = 0

\* the texts that the ZeroDivisionError of _score_routes can carry: the first
\* candidate of the loop divides int by int when its own distance is 0, and
\* otherwise divides a float distance (raising at once when it is a Python
\* float, going on to the zero candidate when it is a numpy scalar)
score_error_messages(ra) ==
    IF ra[1].distance_nm = 0 THEN {"division by zero"} ELSE ZeroDivisionMessages

----------------------------------------------------------------------------
(* agents/forecast_agent.py: the results of analyze_routes *)


\* lines 105-108
carrier_not_found(carrier_id) ==
    [status |-> "failed", error |-> <<"Carrier", carrier_id, "not found">>]

\* lines 115-118
no_routes_found(origin_port, destination_port) ==
    [ status |-> "failed",
      error  |-> <<"No routes found between", origin_port, "and", destination_port>> ]

\* variant: an exception is handed on to the caller
exception_result_reraised(e) == [status |-> "raised", exception |-> <<e>>]

\* lines 160-165: the handler of every exception raised inside the try block
exception_result(e) == [status |-> "failed", error |-> <<e>>]

\* lines 146-158
success_result(req, carrier_info, found, analyses, recommendations) ==
    [ status |-> "success",
      route_summary |-> [ origin          |-> req.origin_port,
                          destination     |-> req.destination_port,
                          carrier         |-> carrier_info,
                          routes_analyzed |-> Len(found) ],
      detailed_analyses |-> analyses,
      recommendations   |-> recommendations ]

----------------------------------------------------------------------------
(* Input domains *)

MaxRoutes == 3

RouteIdPool == <<"R_001", "R_002", "R_003", "R_004", "R_005">>

Distances == {3000, 3300, 6840}

ScoreCarriers == {"CR_0003"}

WeatherEntries(levels) ==
    [k \in DOMAIN levels |-> [segment_summary |-> [risk_level |-> levels[k]]]]

TrafficEntries(levels) ==
    [k \in DOMAIN levels |-> [traffic_summary |-> [congestion_level |-> levels[k]]]]

\* simulator outcomes for the four segments of one route: per-segment weather
\* risk, per-segment congestion and the severities of the generated events
Conditions ==
    { [weather |-> <<"Low", "Low", "Low", "Low">>,
       traffic |-> <<"Low", "Low", "Low", "Low">>,
       events  |-> <<"Low", "Low">>],
      [weather |-> <<"Medium", "Low", "Low", "Low">>,
       traffic |-> <<"Medium", "Low", "High", "Low">>,
       events  |-> <<"Critical", "Medium">>],
      [weather |-> <<"High", "Medium", "Low", "Low">>,
       traffic |-> <<"Low", "Medium", "Low", "Low">>,
       events  |-> <<"High", "High", "High">>],
      [weather |-> <<"High", "High", "Medium", "Low">>,
       traffic |-> <<"Low", "Low", "Low", "Low">>,
       events  |-> <<"High", "Medium">>],
      [weather |-> <<"Low", "Low", "Low", "Low">>,
       traffic |-> <<"High", "High", "High", "Low">>,
       events  |-> <<"Low", "Medium", "Low">>],
      [weather |-> <<"High", "High", "High", "High">>,
       traffic |-> <<"High", "Medium", "High", "Medium">>,
       events  |-> <<"Critical", "High", "High", "High">>] }

\* a row of port_to_port_routes.csv
RouteRow(id, origin, destination, distance, waypoint_ids) ==
    [ Route_ID         |-> id,
      Origin_Port      |-> origin,
      Destination_Port |-> destination,
      Route_Type       |-> "Transatlantic",
      Distance_NM      |-> distance,
      Waypoint_IDs     |-> waypoint_ids ]

\* ids of n rows, in ascending or in descending order
IdOrders(n) ==
    { [i \in 1..n |-> RouteIdPool[i]], [i \in 1..n |-> RouteIdPool[n + 1 - i]] }

----------------------------------------------------------------------------
(* Scoring: _score_routes applied to the analyses of 1..MaxRoutes routes *)

InitScore ==
    \E n \in 1..MaxRoutes :
    \E ids \in IdOrders(n) :
    \E dist \in [1..n -> Distances] :
    \E carrier \in ScoreCarriers :
        /\ pc = "score_call"
        /\ data = [routes |-> [i \in 1..n |->
                       RouteRow(ids[i], "New York", "Cape Town", Some(dist[i]),
                                Some(<<"WP_001", "WP_004">>))]]
        /\ request = [origin_port |-> "New York", destination_port |-> "Cape Town",
                      carrier_id |-> carrier]
        /\ routes = find_routes_between_ports("New York", "Cape Town", data).value
        /\ vessel_speed_knots = 0
        /\ \E cond \in [1..n -> Conditions] :
               route_analyses =
                   [i \in 1..n |->
                       _analyze_single_route(routes[i],
                                             get_carrier_info(carrier)[1].avg_speed_knots,
                                             WeatherEntries(cond[i].weather),
                                             TrafficEntries(cond[i].traffic),
                                             analyze_route_news(cond[i].events))]
        /\ supplied = <<>>
        /\ result = [status |-> "none"]
        /\ route_segments = <<>>
        /\ cumulative_hours = <<0, 1>>
        /\ traffic_forecast = <<>>
        /\ calls = <<>>
        /\ extended_forecast = <<>>
        /\ all_news = <<>>
        /\ seed = <<>>
        /\ reports = <<>>
        /\ WebIdle

\* the call scored_routes = self._score_routes(route_analyses)
ScoreRoutes ==
    /\ pc = "score_call"
    /\ supplied' = route_analyses
    /\ route_analyses' = _score_routes(route_analyses)
    /\ pc' = "scored"
    /\ UNCHANGED <<data, request, routes, result, route_segments,
                   vessel_speed_knots, cumulative_hours, traffic_forecast,
                   calls, extended_forecast, all_news, seed, reports, web>>

NextScore == ScoreRoutes

SpecScore == InitScore /\ [][NextScore]_vars

----------------------------------------------------------------------------
(* Properties of the scoring *)

\* C1: after _score_routes, every route's route_score is between 0 and 100.
ScoreBounded ==
    pc = "scored" =>
        \A i \in DOMAIN route_analyses :
            /\ FLeq(FInt(0), route_analyses[i].route_score)
            /\ FLeq(route_analyses[i].route_score, FInt(100))

ScoreBoundedWitness ==
    /\ pc = "scored"
    /\ \E i \in DOMAIN route_analyses : route_analyses[i].route_score = FInt(0)
    /\ \E i \in DOMAIN route_analyses : route_analyses[i].route_score = FInt(100)

\* position of a route id in the lexical order of the ids
IdRank(id) == CHOOSE k \in DOMAIN RouteIdPool : RouteIdPool[k] = id

\* position of a route in the list given to _score_routes
SuppliedPos(id) == CHOOSE k \in DOMAIN supplied : supplied[k].route_id = id

BaselineZeroPenalty ==
    pc = "scored" =>
        \A i \in DOMAIN supplied :
            LET a == supplied[i]
            IN  /\ FLeq(FInt(0), distance_penalty(a, supplied))
                /\ FLeq(FInt(0), time_penalty(a, supplied))
                /\ (\A j \in DOMAIN supplied : a.distance_nm <= supplied[j].distance_nm)
                       => distance_penalty(a, supplied) = FInt(0)
                /\ (\A j \in DOMAIN supplied :
                        a.time_calculation.total_time_hours
                            <= supplied[j].time_calculation.total_time_hours)
                       => time_penalty(a, supplied) = FInt(0)

\* the shortest route is not the first one and is not the fastest one
BaselineZeroPenaltyWitness ==
    /\ pc = "scored"
    /\ \E i, j \in DOMAIN supplied :
           /\ i > 1
           /\ supplied[i].distance_nm < supplied[1].distance_nm
           /\ supplied[j].time_calculation.total_time_hours
                  < supplied[i].time_calculation.total_time_hours
           /\ distance_penalty(supplied[i], supplied) = FInt(0)
           /\ time_penalty(supplied[j], supplied) = FInt(0)
           /\ FLess(FInt(0), time_penalty(supplied[i], supplied))

WeatherPenaltyTable == [Low |-> 0, Medium |-> 10, High |-> 20]

TrafficPenaltyTable == [Low |-> 0, Medium |-> 7, High |-> 15]

EventPenaltyTable == [Low |-> 0, Medium |-> 10, High |-> 20, Critical |-> 30]

\* 100 - distance penalty - time penalty - the three categorical penalties,
\* with both baselines taken over all the candidates cs of the call
ClaimedTotal(a, cs) ==
    LET min_d == CHOOSE d \in {cs[k].distance_nm : k \in DOMAIN cs} :
                     \A k \in DOMAIN cs : d <= cs[k].distance_nm
        min_t == CHOOSE t \in {cs[k].time_calculation.total_time_hours : k \in DOMAIN cs} :
                     \A k \in DOMAIN cs : t <= cs[k].time_calculation.total_time_hours
        fixed == 100 - WeatherPenaltyTable[a.weather_analysis.overall_risk]
                     - TrafficPenaltyTable[a.traffic_analysis.overall_congestion]
                     - EventPenaltyTable[a.news_analysis.overall_risk_assessment]
        relative == FAdd(Frac(10 * (a.distance_nm - min_d), min_d),
                         Frac(15 * (a.time_calculation.total_time_hours - min_t), min_t))
    IN  FSub(FInt(fixed), relative)

\* C4: every candidate's total score is max(0, 100 - distance_penalty -
\* time_penalty - weather_penalty - traffic_penalty - event_penalty) with the
\* weather penalty 20/10/0, the traffic penalty 15/7/0 and the event penalty
\* 30/20/10/0.
TotalScoreFormula ==
    pc = "scored" =>
        \A i \in DOMAIN route_analyses :
            LET a == route_analyses[i]
                total == ClaimedTotal(a, supplied)
            IN  a.route_score = IF FLess(total, FInt(0)) THEN FInt(0) ELSE total

\* one candidate pays every kind of penalty and keeps a positive score,
\* another one is clamped at 0
TotalScoreFormulaWitness ==
    /\ pc = "scored"
    /\ \E i \in DOMAIN route_analyses :
           LET a == route_analyses[i]
           IN  /\ a.weather_analysis.overall_risk = "Medium"
               /\ a.traffic_analysis.overall_congestion = "Medium"
               /\ a.news_analysis.overall_risk_assessment = "Critical"
               /\ FLess(FInt(0), distance_penalty(a, supplied))
               /\ FLess(FInt(0), time_penalty(a, supplied))
               /\ FLess(FInt(0), a.route_score)
    /\ \E i \in DOMAIN route_analyses :
           /\ FLess(ClaimedTotal(route_analyses[i], supplied), FInt(0))
           /\ route_analyses[i].route_score = FInt(0)

\* Scenario A: two candidates of 3000 nm and 3300 nm, carrier speed 20 kt, no
\* weather-risk segment, no congested segment, event assessment Low
ScenarioA ==
    /\ pc = "scored"
    /\ Len(supplied) = 2
    /\ CarrierTable[request.carrier_id].AVG_SPEED_KNOTS = 20
    /\ {supplied[k].distance_nm : k \in DOMAIN supplied} = {3000, 3300}
    /\ \A k \in DOMAIN supplied :
           /\ supplied[k].weather_analysis.risk_segments = 0
           /\ supplied[k].traffic_analysis.congested_segments = 0
           /\ supplied[k].news_analysis.overall_risk_assessment = "Low"

\* C5 (as stated): in Scenario A the 3000 nm candidate ranks first with score
\* 100 and the 3300 nm candidate gets 100 - (3300-3000)/3000*10 = 99.
ScenarioAClaimed ==
    ScenarioA =>
        /\ route_analyses[1].distance_nm = 3000
        /\ route_analyses[1].route_score = FInt(100)
        /\ route_analyses[2].distance_nm = 3300
        /\ route_analyses[2].route_score = FInt(99)

\* C5 (amended): in Scenario A the 3000 nm candidate ranks first with score
\* 100 and the 3300 nm candidate gets 100 - 1.0 (distance) - 1.5 (time:
\* (165 - 150) / 150 * 15) = 97.5.
ScenarioAScores ==
    ScenarioA =>
        /\ route_analyses[1].distance_nm = 3000
        /\ route_analyses[1].route_score = FInt(100)
        /\ route_analyses[2].distance_nm = 3300
        /\ route_analyses[2].route_score = Frac(195, 2)

\* Scenario A with the longer candidate supplied first
ScenarioAWitness ==
    /\ ScenarioA
    /\ supplied[1].distance_nm = 3300
    /\ supplied[1].time_calculation.total_time_hours = 16500
    /\ supplied[2].time_calculation.total_time_hours = 15000

\* number of segments of analysis a whose weather risk is Medium or High
WeatherRiskSegments(a) ==
    Cardinality({k \in DOMAIN a.weather_analysis.forecast_summary :
        a.weather_analysis.forecast_summary[k].segment_summary.risk_level # "Low"})

\* number of segments of analysis a whose congestion is Medium or High
CongestedSegments(a) ==
    Cardinality({k \in DOMAIN a.traffic_analysis.traffic_summary :
        a.traffic_analysis.traffic_summary[k].traffic_summary.congestion_level # "Low"})

\* Scenario B: congestion High on 3 of the 4 segments of a route
ScenarioB(a) ==
    /\ Len(a.traffic_analysis.traffic_summary) = 4
    /\ Cardinality({k \in DOMAIN a.traffic_analysis.traffic_summary :
           a.traffic_analysis.traffic_summary[k].traffic_summary.congestion_level = "High"}) = 3

\* C14: for every analysed route the overall weather risk is High when more
\* than 2 segments have Medium/High weather risk, Medium when at least 1 has,
\* else Low, and the overall congestion likewise from the congested segments;
\* a route with High congestion on 3 of 4 segments has overall congestion
\* High and is charged a traffic penalty of 15 in its score.
OverallRiskLevels ==
    \A i \in DOMAIN route_analyses :
        LET a == route_analyses[i]
            w == WeatherRiskSegments(a)
            t == CongestedSegments(a)
        IN  /\ a.weather_analysis.overall_risk =
                   IF w >= 3 THEN "High" ELSE IF w >= 1 THEN "Medium" ELSE "Low"
            /\ a.traffic_analysis.overall_congestion =
                   IF t >= 3 THEN "High" ELSE IF t >= 1 THEN "Medium" ELSE "Low"
            /\ ScenarioB(a) =>
                   /\ a.traffic_analysis.overall_congestion = "High"
                   /\ pc = "scored" =>
                          a.route_score =
                              FMax(FInt(0),
                                   FSub(FSub(FInt(100 - weather_penalty(a) - 15 - event_penalty(a)),
                                             distance_penalty(a, supplied)),
                                        time_penalty(a, supplied)))

\* a scored call with a Scenario B route of positive score, a route with
\* exactly two weather-risk segments and a route without congested segment
OverallRiskLevelsWitness ==
    /\ pc = "scored"
    /\ \E i \in DOMAIN route_analyses :
           /\ ScenarioB(route_analyses[i])
           /\ FLess(FInt(0), route_analyses[i].route_score)
    /\ \E i \in DOMAIN route_analyses :
           /\ WeatherRiskSegments(route_analyses[i]) = 2
           /\ route_analyses[i].weather_analysis.overall_risk = "Medium"
    /\ \E i \in DOMAIN route_analyses :
           /\ CongestedSegments(route_analyses[i]) = 0
           /\ route_analyses[i].traffic_analysis.overall_congestion = "Low"

\* C15: scoring does not mutate in place: after _score_routes has returned,
\* the list of route analyses it was given (the list reported as
\* detailed_analyses) has the order and the element contents it had at the
\* call.
ScoringLeavesInputUnchanged ==
    pc = "scored" => route_analyses = supplied

----------------------------------------------------------------------------
(* Recommendation: _score_routes and _generate_recommendations applied to the
   analyses of 1..MaxCandidates routes *)

MaxCandidates == 4

CandidateDistances == {3000, 3300}

\* simulator outcomes of a candidate
CandidateConditions ==
    { [weather |-> <<"Low", "Low", "Low", "Low">>,
       traffic |-> <<"Low", "Low", "Low", "Low">>,
       events  |-> <<"Low", "Low">>],
      [weather |-> <<"High", "Medium", "Low", "Low">>,
       traffic |-> <<"Low", "Medium", "Low", "Low">>,
       events  |-> <<"High", "Medium">>],
      [weather |-> <<"High", "High", "High", "High">>,
       traffic |-> <<"High", "Medium", "High", "Medium">>,
       events  |-> <<"Critical", "High", "High", "High">>] }

InitRecommend ==
    \E n \in 1..MaxCandidates :
    \E dist \in [1..n -> CandidateDistances] :
        /\ pc = "score_call"
        /\ data = [routes |-> [i \in 1..n |->
                       RouteRow(RouteIdPool[i], "New York", "Cape Town", Some(dist[i]),
                                Some(<<"WP_001", "WP_004">>))]]
        /\ request = [origin_port |-> "New York", destination_port |-> "Cape Town",
                      carrier_id |-> "CR_0003"]
        /\ routes = find_routes_between_ports("New York", "Cape Town", data).value
        /\ vessel_speed_knots = 0
        /\ \E cond \in [1..n -> CandidateConditions] :
               route_analyses =
                   [i \in 1..n |->
                       _analyze_single_route(routes[i],
                                             get_carrier_info("CR_0003")[1].avg_speed_knots,
                                             WeatherEntries(cond[i].weather),
                                             TrafficEntries(cond[i].traffic),
                                             analyze_route_news(cond[i].events))]
        /\ supplied = <<>>
        /\ result = [status |-> "none"]
        /\ route_segments = <<>>
        /\ cumulative_hours = <<0, 1>>
        /\ traffic_forecast = <<>>
        /\ calls = <<>>
        /\ extended_forecast = <<>>
        /\ all_news = <<>>
        /\ seed = <<>>
        /\ reports = <<>>
        /\ WebIdle

\* the call recommendations = self._generate_recommendations(scored_routes, ...)
Recommend ==
    /\ pc = "scored"
    /\ result' = _generate_recommendations(route_analyses)
    /\ pc' = "recommended"
    /\ UNCHANGED <<data, request, routes, supplied, route_analyses, route_segments,
                   vessel_speed_knots, cumulative_hours, traffic_forecast,
                   calls, extended_forecast, all_news, seed, reports, web>>

NextRecommend == ScoreRoutes \/ Recommend

SpecRecommend == InitRecommend /\ [][NextRecommend]_vars

\* C17: the best route of the recommendation is the first route of the
\* ranking and no candidate has a higher score; alternative_routes holds
\* exactly the next min(2, N-1) candidates of the ranking, in ranking order
\* with ranks 2 and 3, each with the distance, time and score differences
\* taken as alternative minus best, and every score_difference is <= 0.
RecommendationShape ==
    pc = "recommended" =>
        LET N == Len(route_analyses)
            best == route_analyses[1]
            alts == result.alternative_routes
        IN  /\ result.best_route.route_id = best.route_id
            /\ result.best_route.score = best.route_score
            /\ \A i \in DOMAIN supplied :
                   FLeq(route_score(supplied[i], supplied), result.best_route.score)
            /\ Len(alts) = (IF N - 1 < 2 THEN N - 1 ELSE 2)
            /\ \A k \in DOMAIN alts :
                   LET r == route_analyses[k + 1]
                       c == alts[k].comparison_to_best
                   IN  /\ alts[k].rank = k + 1
                       /\ alts[k].route_id = r.route_id
                       /\ alts[k].score = r.route_score
                       /\ c.distance_difference_nm = r.distance_nm - best.distance_nm
                       /\ c.time_difference_hours =
                              r.time_calculation.total_time_hours
                                  - best.time_calculation.total_time_hours
                       /\ FAdd(best.route_score, c.score_difference) = r.route_score
                       /\ FLeq(c.score_difference, FInt(0))

\* four candidates: two alternatives are reported, the fourth of the ranking
\* is left out, one alternative ties with the best and one scores lower
\* although it is shorter
RecommendationShapeWitness ==
    /\ pc = "recommended"
    /\ Len(route_analyses) = 4
    /\ Len(result.alternative_routes) = 2
    /\ result.alternative_routes[1].comparison_to_best.score_difference = FInt(0)
    /\ FLess(result.alternative_routes[2].comparison_to_best.score_difference, FInt(0))
    /\ result.alternative_routes[2].comparison_to_best.distance_difference_nm < 0
    /\ route_analyses[4].route_id \notin
           {result.alternative_routes[k].route_id : k \in DOMAIN result.alternative_routes}

----------------------------------------------------------------------------
(* Traffic propagation: get_traffic_forecast called with 1..MaxSegments segments *)

MaxSegments == 3

\* outcomes of random.randint(-10, 20) that are taken
RandVessels == {-10, -9, 20}

\* base speeds in knots, two of them below the 10 kt floor
VesselSpeeds == {0, 8, 12, 20}

\* coordinates and distance of a segment: two points in the equatorial band,
\* one point in the equatorial band, two points in the open ocean, a
\* segment given without distance_nm, and a segment with an empty coordinate
\* list
SegmentShapes ==
    { [coordinates |-> << <<300, 0>>, <<420, 0>> >>, distance |-> Some(120)],
      [coordinates |-> <<>>,                          distance |-> Some(120)],
      [coordinates |-> << <<300, 0>> >>,              distance |-> Some(0)],
      [coordinates |-> << <<3000, 0>>, <<3250, 0>> >>, distance |-> Some(250)],
      [coordinates |-> << <<1980, 0>>, <<2040, 0>> >>, distance |-> None] }

Segment(k, shape) ==
    IF shape.distance = None
    THEN [ segment_id  |-> <<"R_001", "seg", k>>,
           coordinates |-> shape.coordinates ]
    ELSE [ segment_id  |-> <<"R_001", "seg", k>>,
           coordinates |-> shape.coordinates,
           distance_nm |-> shape.distance[1] ]

InitTraffic ==
    \E n \in 1..MaxSegments :
    \E shapes \in [1..n -> SegmentShapes] :
    \E speed \in VesselSpeeds :
        /\ pc = "traffic_loop"
        /\ route_segments = [k \in 1..n |-> Segment(k, shapes[k])]
        /\ vessel_speed_knots = speed
        /\ cumulative_hours = FInt(0)
        /\ traffic_forecast = <<>>
        /\ calls = <<>>
        /\ extended_forecast = <<>>
        /\ all_news = <<>>
        /\ seed = <<>>
        /\ reports = <<>>
        /\ WebIdle
        /\ data = [routes |-> <<>>]
        /\ request = [origin_port |-> "", destination_port |-> "", carrier_id |-> ""]
        /\ routes = <<>>
        /\ supplied = <<>>
        /\ route_analyses = <<>>
        /\ result = [status |-> "none"]

\* one iteration of the loop of get_traffic_forecast (lines 164-189)
TrafficSegment ==
    /\ pc = "traffic_loop"
    /\ Len(traffic_forecast) < Len(route_segments)
    /\ LET segment == route_segments[Len(traffic_forecast) + 1]
       IN  IF segment.coordinates = <<>>
           THEN /\ pc' = "traffic_raised"
                /\ UNCHANGED <<cumulative_hours, traffic_forecast>>
           ELSE \E rand_vessels \in RandVessels :
                \E reduction \in ReductionChoices(
                        congestion_of(base_traffic(segment.coordinates) + rand_vessels)) :
                    LET traffic == analyze_maritime_traffic(
                                       segment.segment_id, segment.coordinates,
                                       analysis_day(cumulative_hours),
                                       rand_vessels, reduction).value
                        speed10 == effective_speed(
                                       vessel_speed_knots,
                                       traffic.traffic_summary.average_speed_reduction_knots)
                    IN  /\ traffic_forecast' =
                               Append(traffic_forecast,
                                      [ hours_from_departure |-> cumulative_hours,
                                        effective_speed_knots |-> speed10 ] @@ traffic)
                        /\ cumulative_hours' =
                               next_cumulative_hours(cumulative_hours,
                                                     segment_distance(segment), speed10)
                        /\ pc' = pc
    /\ UNCHANGED <<data, request, routes, supplied, route_analyses, result,
                   route_segments, vessel_speed_knots,
                   calls, extended_forecast, all_news, seed, reports, web>>

\* the loop is exhausted and the forecast is returned (line 191)
TrafficReturn ==
    /\ pc = "traffic_loop"
    /\ Len(traffic_forecast) = Len(route_segments)
    /\ pc' = "traffic_returned"
    /\ UNCHANGED <<data, request, routes, supplied, route_analyses, result,
                   route_segments, vessel_speed_knots, cumulative_hours, traffic_forecast,
                   calls, extended_forecast, all_news, seed, reports, web>>

NextTraffic == TrafficSegment \/ TrafficReturn

SpecTraffic == InitTraffic /\ [][NextTraffic]_vars

\* C6: the hours_from_departure recorded per segment start at 0, never
\* decrease, and grow strictly after a segment of nonzero distance.
MonotonicPropagation ==
    \A k \in DOMAIN traffic_forecast :
        /\ k = 1 => traffic_forecast[k].hours_from_departure = FInt(0)
        /\ k > 1 =>
               /\ FLeq(traffic_forecast[k - 1].hours_from_departure,
                       traffic_forecast[k].hours_from_departure)
               /\ segment_distance(route_segments[k - 1]) # 0
                      => FLess(traffic_forecast[k - 1].hours_from_departure,
                               traffic_forecast[k].hours_from_departure)

\* a returned forecast with a strict increase after a nonzero segment and an
\* equal entry after a zero-distance segment
MonotonicPropagationWitness ==
    /\ pc = "traffic_returned"
    /\ \E k \in DOMAIN traffic_forecast :
           /\ k > 2
           /\ segment_distance(route_segments[k - 2]) # 0
           /\ segment_distance(route_segments[k - 1]) = 0
           /\ FLess(FInt(0), traffic_forecast[k - 1].hours_from_departure)
           /\ traffic_forecast[k].hours_from_departure
                  = traffic_forecast[k - 1].hours_from_departure

\* C13: a simulator failure on one segment (an empty coordinate list) does
\* not abort the evaluation: the walk over the segments ends by returning a
\* forecast that has an entry for every segment, so that the route and the
\* other candidates can still be scored.
SegmentFailureDegrades ==
    pc # "traffic_loop" =>
        /\ pc = "traffic_returned"
        /\ Len(traffic_forecast) = Len(route_segments)

\* C19: in every entry of the traffic forecast the effective speed is
\* max(base speed - speed reduction, 10 kt): never below 10 knots, whatever
\* the base speed and the traffic outcome, so the transit time of the
\* segment, distance / effective speed, is defined and is what the clock
\* advances by.
EffectiveSpeedFloor ==
    \A k \in DOMAIN traffic_forecast :
        LET entry   == traffic_forecast[k]
            reduced == 10 * vessel_speed_knots
                       - entry.traffic_summary.average_speed_reduction_knots
            after   == IF k < Len(traffic_forecast)
                       THEN traffic_forecast[k + 1].hours_from_departure
                       ELSE cumulative_hours
        IN  /\ entry.effective_speed_knots >= 100
            /\ entry.effective_speed_knots >= reduced
            /\ entry.effective_speed_knots \in {100, reduced}
            /\ after = FAdd(entry.hours_from_departure,
                            Frac(10 * segment_distance(route_segments[k]),
                                 entry.effective_speed_knots))

\* a forecast was returned in which the floor applied to a segment of
\* positive length, with a base speed above the floor and with one below it
EffectiveSpeedFloorWitness ==
    /\ pc = "traffic_returned"
    /\ Len(traffic_forecast) >= 2
    /\ vessel_speed_knots \in {8, 12}
    /\ traffic_forecast[1].traffic_summary.average_speed_reduction_knots = 50
    /\ traffic_forecast[1].effective_speed_knots = 100
    /\ segment_distance(route_segments[1]) = 120
    /\ traffic_forecast[2].hours_from_departure = FInt(12)

\* the average latitude of the coordinates lies strictly between lo and hi
\* degrees (latitudes are in arc-minutes)
AverageLatitudeBetween(coordinates, lo, hi) ==
    LET total == SumSeq([j \in DOMAIN coordinates |-> coordinates[j][1]])
    IN  /\ 60 * lo * Len(coordinates) < total
        /\ total < 60 * hi * Len(coordinates)

OutsideTrafficBands(coordinates) ==
    /\ ~AverageLatitudeBetween(coordinates, -10, 10)
    /\ ~AverageLatitudeBetween(coordinates, 30, 40)
    /\ ~AverageLatitudeBetween(coordinates, -35, -25)

\* C26: a segment whose average latitude lies outside every high-traffic
\* band is always reported with Low congestion and a speed reduction of 0,
\* so its effective speed is max(base speed, 10 kt) for every outcome of
\* the vessel draw.
OpenOceanUnimpeded ==
    \A k \in DOMAIN traffic_forecast :
        OutsideTrafficBands(route_segments[k].coordinates) =>
            /\ traffic_forecast[k].traffic_summary.total_vessels_24h <= 40
            /\ traffic_forecast[k].traffic_summary.congestion_level = "Low"
            /\ traffic_forecast[k].traffic_summary.average_speed_reduction_knots = 0
            /\ traffic_forecast[k].effective_speed_knots
                   = IF vessel_speed_knots >= 10 THEN 10 * vessel_speed_knots ELSE 100

\* an open-ocean segment with the largest vessel draw (40 vessels), crossed
\* at a base speed above the floor
OpenOceanUnimpededWitness ==
    /\ pc = "traffic_returned"
    /\ vessel_speed_knots = 20
    /\ \E k \in DOMAIN traffic_forecast :
           /\ OutsideTrafficBands(route_segments[k].coordinates)
           /\ traffic_forecast[k].traffic_summary.total_vessels_24h = 40
           /\ traffic_forecast[k].effective_speed_knots = 200

Contains(alerts, alert) == \E i \in DOMAIN alerts : alerts[i] = alert

\* C27: the alerts of a traffic analysis reflect its conditions: the
\* congestion alert is present whenever congestion_level is High, the
\* collision alert whenever collision_risk is High, and the dense-traffic
\* alert whenever traffic_density exceeds 6 (the density is in hundredths).
AlertsReflectConditions ==
    \A k \in DOMAIN traffic_forecast :
        LET entry == traffic_forecast[k]
        IN  /\ entry.traffic_summary.congestion_level = "High" =>
                   Contains(entry.alerts, "High traffic congestion - expect delays")
            /\ entry.navigation_impact.collision_risk = "High" =>
                   Contains(entry.alerts, "High collision risk - maintain vigilant watch")
            /\ entry.traffic_summary.traffic_density > 600 =>
                   Contains(entry.alerts, "Dense traffic area - reduce speed as necessary")

----------------------------------------------------------------------------
(* Seeded runs: get_weather_forecast called again after random.seed(seed) *)

MaxRuns == 2

\* outcomes of the draws for one coordinate
WeatherDraws ==
    [ condition : {"Clear", "Fog", "Stormy"}, wind : {100, 280}, waves : {12, 32} ]

\* coordinate lists of the segment: one point, two points
SeedCoordinates == { << <<300, 0>> >>, << <<300, 0>>, <<420, 0>> >> }

\* seed stands for the random source after random.seed(): the draws it
\* delivers to a run, one per coordinate
InitSeed ==
    \E coordinates \in SeedCoordinates :
    \E stream \in [DOMAIN coordinates -> WeatherDraws] :
        /\ pc = "seeded_runs"
        /\ seed = stream
        /\ route_segments = << [ segment_id  |-> <<"R_001", "seg", 1>>,
                                 coordinates |-> coordinates,
                                 distance_nm |-> PathDistance(
                                     [k \in DOMAIN coordinates |->
                                         [latitude  |-> coordinates[k][1],
                                          longitude |-> coordinates[k][2]]]) ] >>
        /\ reports = <<>>
        /\ WebIdle
        /\ data = [routes |-> <<>>]
        /\ request = [origin_port |-> "", destination_port |-> "", carrier_id |-> ""]
        /\ routes = <<>>
        /\ supplied = <<>>
        /\ route_analyses = <<>>
        /\ result = [status |-> "none"]
        /\ vessel_speed_knots = 0
        /\ cumulative_hours = <<0, 1>>
        /\ traffic_forecast = <<>>
        /\ calls = <<>>
        /\ extended_forecast = <<>>
        /\ all_news = <<>>

\* one run: the random source is seeded anew and get_weather_forecast is
\* called on the segment for the departure day
SeededRun ==
    /\ pc = "seeded_runs"
    /\ Len(reports) < MaxRuns
    /\ LET segment == route_segments[1]
           forecasts == [k \in DOMAIN segment.coordinates |->
                            PointForecast(segment.coordinates[k], 0, seed[k])]
       IN  \E predominant \in PredominantChoices(forecasts) :
               reports' = Append(reports,
                                 get_weather_forecast(segment.coordinates, 0,
                                                      segment.segment_id, seed,
                                                      predominant))
    /\ UNCHANGED <<pc, data, request, routes, supplied, route_analyses, result,
                   route_segments, vessel_speed_knots, cumulative_hours,
                   traffic_forecast, calls, extended_forecast, all_news, seed, web>>

NextSeed == SeededRun

SpecSeed == InitSeed /\ [][NextSeed]_vars

\* C16: with the same seed of the random source and the same inputs, two
\* runs produce identical condition reports.
SeededRunsIdentical ==
    \A i, j \in DOMAIN reports : reports[i] = reports[j]

----------------------------------------------------------------------------
(* Route lookup: find_routes_between_ports called on one route record *)

MaxWaypointIds == 9

\* two ids of the waypoint grid and one id that is not in it
WaypointIdAlphabet == {"WP_001", "WP_004", "WP_999"}

WaypointIdLists == UNION { [1..n -> WaypointIdAlphabet] : n \in 1..MaxWaypointIds }

InitRoutes ==
    \E waypoint_ids \in {None} \cup {Some(l) : l \in WaypointIdLists} :
    \E distance \in {None, Some(3000)} :
        /\ pc = "find_call"
        /\ data = [routes |->
                     << RouteRow("R_001", "New York", "Cape Town", distance, waypoint_ids),
                        RouteRow("R_002", "Los Angeles", "Tokyo", Some(5500),
                                 Some(<<"WP_002", "WP_005">>)) >>]
        /\ request = [origin_port |-> "New York", destination_port |-> "Cape Town",
                      carrier_id |-> ""]
        /\ routes = <<>>
        /\ supplied = <<>>
        /\ route_analyses = <<>>
        /\ result = [status |-> "none"]
        /\ route_segments = <<>>
        /\ vessel_speed_knots = 0
        /\ cumulative_hours = <<0, 1>>
        /\ traffic_forecast = <<>>
        /\ calls = <<>>
        /\ extended_forecast = <<>>
        /\ all_news = <<>>
        /\ seed = <<>>
        /\ reports = <<>>
        /\ WebIdle

\* the tool find_routes_between_ports(origin_port, destination_port)
FindRoutesCall ==
    /\ pc = "find_call"
    /\ LET found == find_routes_between_ports(request.origin_port,
                                              request.destination_port, data)
       IN  IF found.raised
           THEN pc' = "find_raised" /\ routes' = <<>>
           ELSE pc' = "find_returned" /\ routes' = found.value
    /\ UNCHANGED <<data, request, supplied, route_analyses, result, route_segments,
                   vessel_speed_knots, cumulative_hours, traffic_forecast,
                   calls, extended_forecast, all_news, seed, reports, web>>

NextRoutes == FindRoutesCall

SpecRoutes == InitRoutes /\ [][NextRoutes]_vars

RECURSIVE Flatten(_)
Flatten(ss) == IF ss = <<>> THEN <<>> ELSE Head(ss) \o Flatten(Tail(ss))

SegmentWaypoints(route) == [k \in DOMAIN route.segments |-> route.segments[k].waypoints]

\* C7: the waypoint lists of the segments of a route, concatenated in segment
\* order, are exactly the enriched waypoint list of the route.
SegmentationCoverage ==
    \A r \in DOMAIN routes :
        /\ Flatten(SegmentWaypoints(routes[r])) = routes[r].waypoints
        /\ SumSeq([k \in DOMAIN routes[r].segments |-> Len(routes[r].segments[k].waypoints)])
               = routes[r].waypoint_count

\* a route of 9 waypoints cut into four pairs and a final single waypoint
SegmentationCoverageWitness ==
    /\ pc = "find_returned"
    /\ \E r \in DOMAIN routes :
           /\ Len(routes[r].waypoints) = 9
           /\ Len(routes[r].segments) = 5
           /\ Len(routes[r].segments[1].waypoints) = 2
           /\ Len(routes[r].segments[5].waypoints) = 1

\* C8: every segment of every route returned by find_routes_between_ports
\* has at least two waypoints.
SegmentsHaveWaypointPair ==
    \A r \in DOMAIN routes :
        \A k \in DOMAIN routes[r].segments :
            Len(routes[r].segments[k].waypoints) >= 2

\* the waypoints that the first route record supplies: its waypoint ids
\* that the waypoint table knows, in the order of the record
SuppliedWaypoints ==
    LET cell == data.routes[1].Waypoint_IDs
        ids  == IF cell = None THEN <<>> ELSE cell[1]
        known(id) == id \in DOMAIN WaypointGrid
    IN  [k \in DOMAIN SelectSeq(ids, known) |->
            LET id == SelectSeq(ids, known)[k]
            IN  [ waypoint_id |-> <<id>>,
                  type        |-> WaypointGrid[id].Waypoint_Type,
                  latitude    |-> WaypointGrid[id].Latitude,
                  longitude   |-> WaypointGrid[id].Longitude,
                  port_name   |-> Some(WaypointGrid[id].Port_Name) ]]

IsInserted(wp) == wp.type = "Intermediate"

IsOriginal(wp) == wp.type # "Intermediate"

\* position p of wps holds an inserted waypoint: a is the position of the last
\* original before it, b that of the first original after it
OnTheLine(wps, p) ==
    \E a \in 1..(p - 1) : \E b \in (p + 1)..Len(wps) :
        /\ IsOriginal(wps[a]) /\ IsOriginal(wps[b])
        /\ \A q \in (a + 1)..(b - 1) : IsInserted(wps[q])
        /\ (b - a) * (wps[p].latitude - wps[a].latitude)
               = (p - a) * (wps[b].latitude - wps[a].latitude)
        /\ (b - a) * (wps[p].longitude - wps[a].longitude)
               = (p - a) * (wps[b].longitude - wps[a].longitude)

\* C20: a route supplied with 2 or 3 waypoints is returned with at least 4
\* waypoints; the supplied waypoints are all kept in their order, and every
\* inserted waypoint has type Intermediate, no port name, and lies evenly
\* spaced on the line between the supplied waypoints around it.
EnrichmentByInterpolation ==
    (pc # "find_call" /\ Len(SuppliedWaypoints) \in {2, 3}) =>
        /\ (data.routes[1].Waypoint_IDs # None
             /\ Len(data.routes[1].Waypoint_IDs[1]) = Len(SuppliedWaypoints))
               => pc = "find_returned"
        /\ pc = "find_returned" =>
               /\ Len(routes) = 1
               /\ Len(routes[1].waypoints) >= 4
               /\ routes[1].waypoint_count = Len(routes[1].waypoints)
               /\ SelectSeq(routes[1].waypoints, IsOriginal) = SuppliedWaypoints
               /\ \A p \in DOMAIN routes[1].waypoints :
                      IsInserted(routes[1].waypoints[p]) =>
                          /\ routes[1].waypoints[p].port_name = None
                          /\ OnTheLine(routes[1].waypoints, p)

\* a route of three supplied waypoints was returned with five, the second
\* one inserted halfway between New York and Cape Town
EnrichmentByInterpolationWitness ==
    /\ pc = "find_returned"
    /\ Len(SuppliedWaypoints) = 3
    /\ Len(routes) = 1
    /\ Len(routes[1].waypoints) = 5
    /\ routes[1].waypoints[1].port_name = Some("New York")
    /\ routes[1].waypoints[2].type = "Intermediate"
    /\ routes[1].waypoints[2].latitude = 204
    /\ routes[1].waypoints[3].port_name = Some("Cape Town")

SegmentDistancesCoverPath ==
    \A r \in DOMAIN routes :
        SumSeq([k \in DOMAIN routes[r].segments |-> routes[r].segments[k].distance_nm])
            = PathDistance(routes[r].waypoints)

----------------------------------------------------------------------------
(* Route analysis: the three forecasts that _analyze_single_route requests *)
(* for the segments of one route (forecast_agent.py lines 178-197)         *)

MaxLegs == 2

\* base speeds of the carrier in knots
LegSpeeds == {12, 20}

\* two points in the equatorial band 250 nm apart, one point in the
\* equatorial band, two points in the open ocean 250 nm apart
LegShapes ==
    { [coordinates |-> << <<300, 0>>, <<550, 0>> >>,   distance |-> Some(250)],
      [coordinates |-> << <<300, 0>> >>,               distance |-> Some(0)],
      [coordinates |-> << <<2700, 0>>, <<2950, 0>> >>, distance |-> Some(250)] }

\* the weather draws of the coordinates of one segment: calm on both points,
\* or a storm on the first and fog on the second
LegWeatherStreams ==
    { << [condition |-> "Clear",  wind |-> 100, waves |-> 12],
         [condition |-> "Clear",  wind |-> 100, waves |-> 12] >>,
      << [condition |-> "Stormy", wind |-> 280, waves |-> 32],
         [condition |-> "Fog",    wind |-> 100, waves |-> 12] >> }

\* outcomes of random.randint(-10, 20) that are taken
LegRandVessels == {-10, -9}

\* severities of the events generated for one segment
LegSeverities ==
    { <<"Low", "Medium">>, <<"High", "Critical">>, <<"High", "High">>, <<"High", "Low">> }

\* the route whose segments are analysed
LegRoute ==
    [ route_id          |-> "R_001",
      route_type        |-> "Direct",
      total_distance_nm |-> SumSeq([k \in DOMAIN route_segments |->
                                       segment_distance(route_segments[k])]),
      segments          |-> route_segments ]

InitAnalysis ==
    \E n \in 1..MaxLegs :
    \E shapes \in [1..n -> LegShapes] :
    \E speed \in LegSpeeds :
        /\ pc = "weather"
        /\ route_segments = [k \in 1..n |-> Segment(k, shapes[k])]
        /\ vessel_speed_knots = speed
        /\ extended_forecast = <<>>
        /\ traffic_forecast = <<>>
        /\ all_news = <<>>
        /\ cumulative_hours = FInt(0)
        /\ calls = <<>>
        /\ seed = <<>>
        /\ reports = <<>>
        /\ WebIdle
        /\ data = [routes |-> <<>>]
        /\ request = [origin_port |-> "", destination_port |-> "", carrier_id |-> ""]
        /\ routes = <<>>
        /\ supplied = <<>>
        /\ route_analyses = <<>>
        /\ result = [status |-> "none"]

\* lines 178-182: get_extended_forecast on the segments of the route
GetExtendedForecast ==
    /\ pc = "weather"
    /\ \E points \in [DOMAIN route_segments -> LegWeatherStreams] :
       \E predominant \in [DOMAIN route_segments -> {"Clear", "Fog", "Stormy"}] :
           /\ \A k \in DOMAIN route_segments :
                  predominant[k] \in PredominantChoices(
                      [j \in DOMAIN route_segments[k].coordinates |->
                          PointForecast(route_segments[k].coordinates[j], 0, points[k][j])])
           /\ extended_forecast' =
                  get_extended_forecast(
                      route_segments, vessel_speed_knots,
                      [k \in DOMAIN route_segments |->
                          [points |-> points[k], predominant |-> predominant[k]]])
    /\ calls' = Append(calls, "get_extended_forecast")
    /\ pc' = "traffic"
    /\ UNCHANGED <<data, request, routes, supplied, route_analyses, result,
                   route_segments, vessel_speed_knots, cumulative_hours,
                   traffic_forecast, all_news, seed, reports, web>>

\* lines 185-189: get_traffic_forecast on the same segments
GetTrafficForecast ==
    /\ pc = "traffic"
    /\ \E rand_vessels \in [DOMAIN route_segments -> LegRandVessels] :
       \E reduction \in [DOMAIN route_segments -> {0, 5, 20, 50}] :
           /\ \A k \in DOMAIN route_segments :
                  reduction[k] \in ReductionChoices(
                      congestion_of(base_traffic(route_segments[k].coordinates)
                                    + rand_vessels[k]))
           /\ traffic_forecast' =
                  get_traffic_forecast(
                      route_segments, vessel_speed_knots,
                      [k \in DOMAIN route_segments |->
                          [rand_vessels |-> rand_vessels[k],
                           reduction    |-> reduction[k]]]).value
    /\ calls' = Append(calls, "get_traffic_forecast")
    /\ pc' = "news"
    /\ UNCHANGED <<data, request, routes, supplied, route_analyses, result,
                   route_segments, vessel_speed_knots, cumulative_hours,
                   extended_forecast, all_news, seed, reports, web>>

\* lines 192-245: analyze_route_news on the same segments, then the metrics
\* and the time calculation of the route; calculate_route_time may raise
\* ZeroDivisionError for a route of total distance 0
AnalyzeRouteNews ==
    /\ pc = "news"
    /\ \E severities \in [DOMAIN route_segments -> LegSeverities] :
           /\ all_news' = route_news(route_segments, vessel_speed_knots, severities)
           /\ calls' = calls \o <<"analyze_route_news", "calculate_route_time">>
           /\ \/ /\ route_time_may_raise(LegRoute)
                 /\ pc' = "analysis_raised"
                 /\ UNCHANGED route_analyses
              \/ /\ pc' = "forecasts_ready"
                 /\ route_analyses' =
                          << _analyze_single_route(
                                 LegRoute, vessel_speed_knots,
                                 extended_forecast, traffic_forecast,
                                 analyze_route_news(
                                     Flatten([k \in DOMAIN route_segments |->
                                                 severities[k]]))) >>
    /\ UNCHANGED <<data, request, routes, supplied, result,
                   route_segments, vessel_speed_knots, cumulative_hours,
                   extended_forecast, traffic_forecast, seed, reports, web>>

NextAnalysis == GetExtendedForecast \/ GetTrafficForecast \/ AnalyzeRouteNews

SpecAnalysis == InitAnalysis /\ [][NextAnalysis]_vars

\* hours from departure to the start of segment k: the sum over the
\* preceding segments of distance / effective speed
RECURSIVE ProjectedHours(_)
ProjectedHours(k) ==
    IF k = 1 THEN FInt(0)
    ELSE FAdd(ProjectedHours(k - 1),
              Frac(10 * segment_distance(route_segments[k - 1]),
                   traffic_forecast[k - 1].effective_speed_knots))

\* C18: for every segment the weather, traffic and event simulators are
\* invoked with the same projected date, the departure date plus the
\* cumulative hours of the preceding segments at their effective speed.
SameProjectedDate ==
    pc \in {"forecasts_ready", "analysis_raised"} =>
        \A k \in DOMAIN route_segments :
            /\ traffic_forecast[k].analysis_date = analysis_day(ProjectedHours(k))
            /\ extended_forecast[k].forecast_date = analysis_day(ProjectedHours(k))
            /\ all_news[k].analysis_date = analysis_day(ProjectedHours(k))

\* the severities of all events of the route, in the order of all_news
RouteSeverities == Flatten([k \in DOMAIN all_news |-> all_news[k].severities])

HighEvents == {i \in DOMAIN RouteSeverities : RouteSeverities[i] = "High"}

CriticalEvents == {i \in DOMAIN RouteSeverities : RouteSeverities[i] = "Critical"}

\* C22: the event assessment of the route is Critical if any event is
\* Critical, otherwise High if more than 2 events are High, otherwise Medium
\* if at least one event is High, otherwise Low.
EventAssessment ==
    pc = "forecasts_ready" =>
        LET verdict == route_analyses[1].news_analysis.overall_risk_assessment
        IN  /\ route_analyses[1].news_analysis.total_events = Len(RouteSeverities)
            /\ CriticalEvents # {} => verdict = "Critical"
            /\ (CriticalEvents = {} /\ Cardinality(HighEvents) > 2) => verdict = "High"
            /\ (CriticalEvents = {} /\ Cardinality(HighEvents) \in {1, 2})
                   => verdict = "Medium"
            /\ (CriticalEvents = {} /\ HighEvents = {}) => verdict = "Low"

\* three High events and no Critical one on a route of two segments
EventAssessmentWitness ==
    /\ pc = "forecasts_ready"
    /\ CriticalEvents = {}
    /\ Cardinality(HighEvents) = 3
    /\ route_analyses[1].news_analysis.overall_risk_assessment = "High"

\* segments that the weather simulator reported with Medium or High risk
FlaggedWeatherSegments ==
    {k \in DOMAIN extended_forecast :
        extended_forecast[k].segment_summary.risk_level \in {"Medium", "High"}}

\* segments that the traffic simulator reported with Medium or High congestion
FlaggedTrafficSegments ==
    {k \in DOMAIN traffic_forecast :
        traffic_forecast[k].traffic_summary.congestion_level \in {"Medium", "High"}}

\* sum over the segments of the reported average wind speed, tenths of a knot
ReportedWindSum ==
    SumSeq([k \in DOMAIN extended_forecast |->
               extended_forecast[k].segment_summary.average_wind_speed])

\* C23: weather_delay is base_time * (avg_wind / 100), avg_wind being the
\* average wind speed that the weather simulator reported for the route,
\* when more than one segment has Medium or High weather risk, and 0
\* otherwise; total_time_hours is base_time + weather_delay + traffic_delay
\* (times in hundredths of an hour, each rounded on its own).
WeatherDelayFromReportedWind ==
    pc = "forecasts_ready" =>
        LET t == route_analyses[1].time_calculation
            d == route_analyses[1].distance_nm
        IN  /\ Cardinality(FlaggedWeatherSegments) > 1 =>
                   t.weather_delay_hours =
                       RoundDiv(d * ReportedWindSum,
                                10 * Len(extended_forecast) * vessel_speed_knots)
            /\ Cardinality(FlaggedWeatherSegments) <= 1 => t.weather_delay_hours = 0
            /\ Abs(t.total_time_hours
                   - (t.base_time_hours + t.weather_delay_hours + t.traffic_delay_hours))
                   <= 2

\* C24: when more than one segment is congested, traffic_delay is
\* base_time * 0.10 if the congestion of the route is High and
\* base_time * 0.05 if it is Medium; with at most one congested segment it
\* is 0 (times in hundredths of an hour).
TrafficDelayByCongestion ==
    pc = "forecasts_ready" =>
        LET t == route_analyses[1].time_calculation
            d == route_analyses[1].distance_nm
            overall == route_analyses[1].traffic_analysis.overall_congestion
        IN  /\ (Cardinality(FlaggedTrafficSegments) > 1 /\ overall = "High") =>
                   t.traffic_delay_hours = RoundDiv(10 * d, vessel_speed_knots)
            /\ (Cardinality(FlaggedTrafficSegments) > 1 /\ overall = "Medium") =>
                   t.traffic_delay_hours = RoundDiv(5 * d, vessel_speed_knots)
            /\ Cardinality(FlaggedTrafficSegments) <= 1 => t.traffic_delay_hours = 0

----------------------------------------------------------------------------
(* Route evaluation: ForecastAgent.analyze_routes *)

MaxRows == 2

\* a carrier of the reference data and an id that is not in it
RequestCarriers == {"CR_0003", "CR_0404"}

RowOrigins == {"New York", "Los Angeles"}

RowDistances == {3000, 3300}

\* Distance_NM of a row: missing, or one of the distances
RowDistanceCells == {None} \cup {Some(d) : d \in RowDistances}

\* departure_date of the request: a date of the calendar and the 30th of
\* February
RequestDates == { <<2025, 1, 15>>, <<2025, 2, 30>> }

\* Waypoint_IDs of a row: missing, one known id, an unknown and a known id,
\* two unknown ids before a known one, two and three known ids
RowWaypointIds ==
    { None,
      Some(<<"WP_001">>),
      Some(<<"WP_999", "WP_004">>),
      Some(<<"WP_999", "WP_998", "WP_004">>),
      Some(<<"WP_001", "WP_004">>),
      Some(<<"WP_001", "WP_003", "WP_004">>) }

\* simulator outcomes of one route in the evaluation
EvaluationConditions ==
    { [weather |-> <<"Low", "Low", "Low", "Low">>,
       traffic |-> <<"Low", "Low", "Low", "Low">>,
       events  |-> <<"Low", "Low">>],
      [weather |-> <<"High", "Medium", "Low", "Low">>,
       traffic |-> <<"Low", "Medium", "Low", "Low">>,
       events  |-> <<"High", "High", "High">>],
      [weather |-> <<"High", "High", "High", "High">>,
       traffic |-> <<"High", "Medium", "High", "Medium">>,
       events  |-> <<"Critical", "High", "High", "High">>] }

\* one level per segment: the given levels, then Low
LevelsFor(n, levels) == [k \in 1..n |-> IF k <= Len(levels) THEN levels[k] ELSE "Low"]

Init ==
    \E n \in 0..MaxRows :
    \E origins \in [1..n -> RowOrigins] :
    \E dist \in [1..n -> RowDistanceCells] :
    \E wps \in [1..n -> RowWaypointIds] :
    \E carrier \in RequestCarriers :
    \E date \in RequestDates :
        /\ pc = "carrier"
        /\ data = [routes |-> [i \in 1..n |->
                      RouteRow(RouteIdPool[i], origins[i], "Cape Town",
                               dist[i], wps[i])]]
        /\ request = [origin_port |-> "New York", destination_port |-> "Cape Town",
                      departure_date |-> date, carrier_id |-> carrier]
        /\ routes = <<>>
        /\ supplied = <<>>
        /\ route_analyses = <<>>
        /\ result = [status |-> "none"]
        /\ route_segments = <<>>
        /\ vessel_speed_knots = 0
        /\ cumulative_hours = <<0, 1>>
        /\ traffic_forecast = <<>>
        /\ calls = <<>>
        /\ extended_forecast = <<>>
        /\ all_news = <<>>
        /\ seed = <<>>
        /\ reports = <<>>
        /\ WebIdle

\* lines 103-110: the carrier lookup
LookupCarrier ==
    /\ pc = "carrier"
    /\ calls' = Append(calls, "get_carrier_info")
    /\ IF get_carrier_info(request.carrier_id) = None
       THEN /\ result' = carrier_not_found(request.carrier_id)
            /\ pc' = "done"
       ELSE /\ result' = result
            /\ pc' = "routes"
    /\ UNCHANGED <<data, request, routes, supplied, route_analyses, route_segments,
                   vessel_speed_knots, cumulative_hours, traffic_forecast,
                   extended_forecast, all_news, seed, reports, web>>

\* lines 113-120: the route lookup; an exception raised by it is caught by
\* the handler at lines 160-165
FindRoutes ==
    /\ pc = "routes"
    /\ calls' = Append(calls, "find_routes_between_ports")
    /\ LET found == find_routes_between_ports(request.origin_port,
                                              request.destination_port, data)
       IN  IF found.raised
           THEN /\ result' = exception_result(found.value)
                /\ routes' = routes
                /\ pc' = "done"
           ELSE IF found.value = <<>>
           THEN /\ result' = no_routes_found(request.origin_port, request.destination_port)
                /\ routes' = found.value
                /\ pc' = "done"
           ELSE /\ result' = result
                /\ routes' = found.value
                /\ pc' = "analyze"
    /\ UNCHANGED <<data, request, supplied, route_analyses, route_segments,
                   vessel_speed_knots, cumulative_hours, traffic_forecast,
                   extended_forecast, all_news, seed, reports, web>>

\* lines 124-131: one iteration of the loop over the routes.  The route's
\* analysis calls the three simulators and then calculate_route_time; an
\* exception raised on the way leaves the loop for the handler at lines
\* 160-165.
AnalyzeRoute ==
    /\ pc = "analyze"
    /\ Len(route_analyses) < Len(routes)
    /\ LET route == routes[Len(route_analyses) + 1]
           n == Len(route.segments)
           speed == get_carrier_info(request.carrier_id)[1].avg_speed_knots
           departure == strptime(request.departure_date)
           simulators == <<"get_extended_forecast", "get_traffic_forecast",
                           "analyze_route_news">>
       IN  IF departure.raised
           THEN /\ calls' = Append(calls, "get_extended_forecast")
                /\ result' = exception_result(departure.value)
                /\ route_analyses' = route_analyses
                /\ pc' = "done"
           ELSE \/ /\ route_time_may_raise(route)
                   /\ calls' = calls \o simulators \o <<"calculate_route_time">>
                   /\ result' = exception_result("float division by zero")
                   /\ route_analyses' = route_analyses
                   /\ pc' = "done"
                \/ /\ calls' = calls \o simulators \o <<"calculate_route_time">>
                   /\ \E cond \in EvaluationConditions :
                          route_analyses' =
                              Append(route_analyses,
                                     _analyze_single_route(
                                         route, speed,
                                         WeatherEntries(LevelsFor(n, cond.weather)),
                                         TrafficEntries(LevelsFor(n, cond.traffic)),
                                         analyze_route_news(cond.events)))
                   /\ result' = result
                   /\ pc' = pc
    /\ UNCHANGED <<data, request, routes, supplied, route_segments,
                   vessel_speed_knots, cumulative_hours, traffic_forecast,
                   extended_forecast, all_news, seed, reports, web>>

\* lines 134-158: scoring, recommendations and the returned result; a
\* ZeroDivisionError of the scoring is caught by the handler at lines 160-165
ScoreAndRecommend ==
    /\ pc = "analyze"
    /\ Len(route_analyses) = Len(routes)
    /\ IF score_raises(route_analyses)
       THEN /\ \E message \in score_error_messages(route_analyses) :
                   result' = exception_result(message)
            /\ UNCHANGED <<supplied, route_analyses>>
       ELSE LET scored_routes == _score_routes(route_analyses)
            IN  /\ supplied' = route_analyses
                /\ route_analyses' = scored_routes
                /\ result' = success_result(request,
                                            get_carrier_info(request.carrier_id)[1],
                                            routes, scored_routes,
                                            _generate_recommendations(scored_routes))
    /\ pc' = "done"
    /\ UNCHANGED <<data, request, routes, route_segments, vessel_speed_knots,
                   cumulative_hours, traffic_forecast,
                   calls, extended_forecast, all_news, seed, reports, web>>

Next == LookupCarrier \/ FindRoutes \/ AnalyzeRoute \/ ScoreAndRecommend

Spec == Init /\ [][Next]_vars

----------------------------------------------------------------------------
(* Properties of the route evaluation *)

\* indices of the route records between the requested ports
MatchingRows ==
    {i \in DOMAIN data.routes :
        /\ data.routes[i].Origin_Port = request.origin_port
        /\ data.routes[i].Destination_Port = request.destination_port}

RowIds(i) ==
    IF data.routes[i].Waypoint_IDs = None THEN <<>> ELSE data.routes[i].Waypoint_IDs[1]

\* number of waypoint ids of record i that the waypoint grid resolves
ResolvedCount(i) ==
    Cardinality({k \in DOMAIN RowIds(i) : RowIds(i)[k] \in DOMAIN WaypointGrid})

CarrierKnown == request.carrier_id \in DOMAIN CarrierTable

AnalysedIds == {route_analyses[k].route_id : k \in DOMAIN route_analyses}

\* the departure date is a date of the calendar
DateKnown == ~strptime(request.departure_date).raised

\* every route record between the requested ports carries its Distance_NM
DistancesKnown == \A i \in MatchingRows : data.routes[i].Distance_NM # None

\* C9: a candidate that resolves to fewer than 2 waypoints appears neither in
\* the ranking nor in the detailed analyses, and the other candidates between
\* the same ports are still evaluated and ranked: the request succeeds with
\* exactly the candidates of 2 or more waypoints.
DroppedRouteNonFatal ==
    (/\ pc = "done"
     /\ CarrierKnown
     /\ DateKnown
     /\ DistancesKnown
     /\ \E i \in MatchingRows : ResolvedCount(i) < 2
     /\ \E i \in MatchingRows : ResolvedCount(i) >= 2)
        => /\ result.status = "success"
           /\ {result.detailed_analyses[k].route_id : k \in DOMAIN result.detailed_analyses}
                  = {data.routes[i].Route_ID : i \in {m \in MatchingRows : ResolvedCount(m) >= 2}}
           /\ \E i \in MatchingRows :
                  /\ ResolvedCount(i) >= 2
                  /\ result.recommendations.best_route.route_id = data.routes[i].Route_ID

\* route records exist between the ports and every one resolves to fewer
\* than 2 waypoints
AllCandidatesUnusable ==
    /\ CarrierKnown
    /\ MatchingRows # {}
    /\ \A i \in MatchingRows : ResolvedCount(i) < 2

\* the failure returned when no route record exists between the ports
NoRoutesFoundFailure ==
    [ status |-> "failed",
      error  |-> <<"No routes found between", request.origin_port, "and",
                   request.destination_port>> ]

LookupRaises(i) ==
    \E k \in DOMAIN RowIds(i) :
        /\ RowIds(i)[k] \in DOMAIN WaypointGrid
        /\ Cardinality({j \in 1..k : RowIds(i)[j] \notin DOMAIN WaypointGrid}) >= 2

FailFastUnknownCarrier ==
    ~CarrierKnown =>
        /\ \A k \in DOMAIN calls : calls[k] = "get_carrier_info"
        /\ routes = <<>>
        /\ route_analyses = <<>>
        /\ pc \in {"carrier", "done"}
        /\ pc = "done" => /\ result = carrier_not_found(request.carrier_id)
                          /\ calls = <<"get_carrier_info">>

\* an unknown carrier rejected although usable routes exist between the ports
FailFastUnknownCarrierWitness ==
    /\ pc = "done"
    /\ ~CarrierKnown
    /\ DateKnown
    /\ \E i \in MatchingRows : ResolvedCount(i) >= 2 /\ ~LookupRaises(i)
    /\ result = [status |-> "failed", error |-> <<"Carrier", "CR_0404", "not found">>]
    /\ calls = <<"get_carrier_info">>

\* C12: no exception escapes analyze_routes: the request always ends with a
\* returned result, which is tagged "success" and carries the ranking and the
\* recommendations, or is tagged "failed" and carries an error field; this
\* holds for the failures of the carrier lookup, of the route lookup
\* (IndexError), of a route's analysis (ValueError of the date,
\* ZeroDivisionError of the route time) and of the scoring
\* (ZeroDivisionError).
NoExceptionEscapes ==
    /\ pc \in {"carrier", "routes", "analyze", "done"}
    /\ pc # "done" => result = [status |-> "none"]
    /\ pc = "done" =>
           \/ /\ result.status = "success"
              /\ DOMAIN result = {"status", "route_summary", "detailed_analyses",
                                  "recommendations"}
              /\ Len(result.detailed_analyses) = Len(routes)
              /\ "best_route" \in DOMAIN result.recommendations
           \/ /\ result.status = "failed"
              /\ DOMAIN result = {"status", "error"}

\* a request whose scoring raised ZeroDivisionError after two routes were
\* analysed, answered with a failed result
NoExceptionEscapesWitness ==
    /\ pc = "done"
    /\ Len(routes) = 2
    /\ Len(route_analyses) = 2
    /\ score_raises(route_analyses)
    /\ result.status = "failed"
    /\ result.error[1] \in ZeroDivisionMessages

----------------------------------------------------------------------------
(* app.py: the session endpoints of the web application *)

HTTPException(status_code, detail) == [status_code |-> status_code, detail |-> detail]

JSONResponse(content) == [status_code |-> 200, content |-> content]

\* the handler that closes every endpoint body but delete_session:
\*     except Exception as e: raise HTTPException(status_code=500, detail=str(e))
\* HTTPException is itself an Exception, so the ones raised inside the try
\* block arrive here; str(e) is "<status_code>: <detail>"
reraised(e) == HTTPException(500, <<e.status_code, ": ", e.detail>>)

\* lines 101-109: the session that analyze_route stores; the analysis, the
\* request and the creation time it also stores are left out
new_session ==
    [ status           |-> "awaiting_selection",
      selected_route   |-> None,
      journey_started  |-> FALSE,
      actual_departure |-> None ]

\* lines 87-122; outcome is the status of the result of resolver.analyze_route,
\* now the value of datetime.now().timestamp()
analyze_route(sessions, outcome, now) ==
    IF outcome = "success"
    THEN [ sessions |-> (<<"session", now>> :> new_session) @@ sessions,
           response |-> JSONResponse([ status     |-> "success",
                                       session_id |-> <<"session", now>> ]) ]
    ELSE [ sessions |-> sessions,
           response |-> reraised(HTTPException(400, "analysis failed")) ]

\* lines 124-153
select_route(sessions, req) ==
    IF req.session_id \notin DOMAIN sessions
    THEN [ sessions |-> sessions,
           response |-> reraised(HTTPException(404, "Session not found")) ]
    ELSE IF ~req.confirmation
    THEN [ sessions |-> sessions,
           response |-> JSONResponse([status |-> "cancelled"]) ]
    ELSE [ sessions |-> [sessions EXCEPT ![req.session_id] =
                            [@ EXCEPT !.selected_route = Some(req.selected_route_id),
                                      !.status = "route_selected"]],
           response |-> JSONResponse([status |-> "success"]) ]

\* variant: the journey starts whatever the status of the session is
start_journey_unchecked(sessions, req) ==
    IF req.session_id \notin DOMAIN sessions
    THEN [ sessions |-> sessions,
           response |-> reraised(HTTPException(404, "Session not found")) ]
    ELSE [ sessions |-> [sessions EXCEPT ![req.session_id] =
                            [@ EXCEPT !.journey_started = TRUE,
                                      !.actual_departure = Some(req.actual_departure_date),
                                      !.status = "in_progress"]],
           response |-> JSONResponse([ status     |-> "success",
                                       session_id |-> req.session_id ]) ]

\* lines 155-185
start_journey(sessions, req) ==
    IF req.session_id \notin DOMAIN sessions
    THEN [ sessions |-> sessions,
           response |-> reraised(HTTPException(404, "Session not found")) ]
    ELSE IF sessions[req.session_id].status # "route_selected"
    THEN [ sessions |-> sessions,
           response |-> reraised(HTTPException(400, "No route selected")) ]
    ELSE [ sessions |-> [sessions EXCEPT ![req.session_id] =
                            [@ EXCEPT !.journey_started = TRUE,
                                      !.actual_departure = Some(req.actual_departure_date),
                                      !.status = "in_progress"]],
           response |-> JSONResponse([ status     |-> "success",
                                       session_id |-> req.session_id ]) ]

\* lines 187-216
get_journey_status(sessions, req) ==
    IF req.session_id \notin DOMAIN sessions
    THEN [ sessions |-> sessions,
           response |-> reraised(HTTPException(404, "Session not found")) ]
    ELSE LET session == sessions[req.session_id]
         IN  [ sessions |-> sessions,
               response |-> JSONResponse(
                   [ status         |-> "success",
                     session_status |-> session.status,
                     journey_status |-> IF Truthy(session.selected_route)
                                        THEN "in_progress" ELSE "not_started",
                     selected_route |-> session.selected_route ]) ]

\* lines 235-242: the one endpoint without a try block
delete_session(sessions, req) ==
    IF req.session_id \in DOMAIN sessions
    THEN [ sessions |-> [sid \in DOMAIN sessions \ {req.session_id} |-> sessions[sid]],
           response |-> JSONResponse([status |-> "success"]) ]
    ELSE [ sessions |-> sessions,
           response |-> HTTPException(404, "Session not found") ]

----------------------------------------------------------------------------
(* Sessions: any sequence of calls of the session endpoints *)

MaxSessions == 2

\* the session ids that requests name: those of the analyses that can be
\* made, each unknown before its analysis and after its deletion
SessionIds == { <<"session", t>> : t \in 1..MaxSessions }

SelectableRoutes == {"R_001", "R_002"}

InitSessions ==
    /\ pc = "serving"
    /\ active_sessions = <<>>
    /\ response = [endpoint |-> "none"]
    /\ clock = 0
    /\ environ = <<>>
    /\ settings = <<>>
    /\ resolver = <<>>
    /\ EvaluationIdle

\* the request is served: the sessions are updated and the exchange recorded
Served(endpoint, req, served) ==
    /\ active_sessions' = served.sessions
    /\ response' = [endpoint |-> endpoint, request |-> req] @@ served.response

\* POST /api/analyze-route
AnalyzeRouteRequest ==
    /\ pc = "serving"
    /\ clock < MaxSessions
    /\ clock' = clock + 1
    /\ \E outcome \in {"success", "failed", "error"} :
           Served("analyze_route", [outcome |-> outcome],
                  analyze_route(active_sessions, outcome, clock + 1))
    /\ UNCHANGED <<pc, evaluation, environ, settings, resolver>>

\* POST /api/select-route
SelectRouteRequest ==
    /\ pc = "serving"
    /\ \E sid \in SessionIds : \E route_id \in SelectableRoutes :
       \E confirmation \in BOOLEAN :
           LET req == [ session_id        |-> sid,
                        selected_route_id |-> route_id,
                        confirmation      |-> confirmation ]
           IN  Served("select_route", req, select_route(active_sessions, req))
    /\ UNCHANGED <<pc, evaluation, clock, environ, settings, resolver>>

\* POST /api/start-journey
StartJourneyRequest ==
    /\ pc = "serving"
    /\ \E sid \in SessionIds :
           LET req == [ session_id |-> sid, actual_departure_date |-> <<2025, 1, 15>> ]
           IN  Served("start_journey", req, start_journey(active_sessions, req))
    /\ UNCHANGED <<pc, evaluation, clock, environ, settings, resolver>>

\* GET /api/journey-status/{session_id}
JourneyStatusRequest ==
    /\ pc = "serving"
    /\ \E sid \in SessionIds :
           LET req == [session_id |-> sid]
           IN  Served("get_journey_status", req, get_journey_status(active_sessions, req))
    /\ UNCHANGED <<pc, evaluation, clock, environ, settings, resolver>>

\* DELETE /api/session/{session_id}
DeleteSessionRequest ==
    /\ pc = "serving"
    /\ \E sid \in SessionIds :
           LET req == [session_id |-> sid]
           IN  Served("delete_session", req, delete_session(active_sessions, req))
    /\ UNCHANGED <<pc, evaluation, clock, environ, settings, resolver>>

NextSessions ==
    \/ AnalyzeRouteRequest
    \/ SelectRouteRequest
    \/ StartJourneyRequest
    \/ JourneyStatusRequest
    \/ DeleteSessionRequest

SpecSessions == InitSessions /\ [][NextSessions]_vars

StatusOf(sessions, sid) ==
    IF sid \in DOMAIN sessions THEN sessions[sid].status ELSE "absent"

SessionKept(sid) ==
    /\ sid \in DOMAIN active_sessions'
    /\ active_sessions'[sid] = active_sessions[sid]

\* C28: a session reaches status in_progress only through start_journey on
\* a session whose status is route_selected, and route_selected only through
\* select_route with confirmation true; a start_journey call on a session in
\* any other status and a select_route call with confirmation false leave
\* the session unchanged.
SessionLifecycle ==
    [][ \A sid \in SessionIds :
          /\ (StatusOf(active_sessions', sid) = "in_progress"
              /\ StatusOf(active_sessions, sid) # "in_progress")
                 => /\ response'.endpoint = "start_journey"
                    /\ response'.request.session_id = sid
                    /\ StatusOf(active_sessions, sid) = "route_selected"
          /\ (StatusOf(active_sessions', sid) = "route_selected"
              /\ StatusOf(active_sessions, sid) # "route_selected")
                 => /\ response'.endpoint = "select_route"
                    /\ response'.request.session_id = sid
                    /\ response'.request.confirmation
          /\ (response'.endpoint = "start_journey"
              /\ response'.request.session_id = sid
              /\ StatusOf(active_sessions, sid) \notin {"absent", "route_selected"})
                 => SessionKept(sid)
          /\ (response'.endpoint = "select_route"
              /\ response'.request.session_id = sid
              /\ ~response'.request.confirmation
              /\ StatusOf(active_sessions, sid) # "absent")
                 => SessionKept(sid)
      ]_vars

\* the journey of the first session was started after a route was selected
\* for it, while the second session still awaits its selection
SessionLifecycleWitness ==
    /\ response.endpoint = "start_journey"
    /\ response.status_code = 200
    /\ StatusOf(active_sessions, <<"session", 1>>) = "in_progress"
    /\ active_sessions[<<"session", 1>>].selected_route = Some("R_002")
    /\ StatusOf(active_sessions, <<"session", 2>>) = "awaiting_selection"

\* C29: select_route, start_journey and get_journey_status answer 404
\* "Session not found" for a session id that is not in active_sessions, and
\* start_journey answers 400 when no route has been selected.
SessionErrorCodes ==
    /\ (/\ response.endpoint \in {"select_route", "start_journey", "get_journey_status"}
        /\ response.request.session_id \notin DOMAIN active_sessions)
           => /\ response.status_code = 404
              /\ response.detail = "Session not found"
    /\ (/\ response.endpoint = "start_journey"
        /\ StatusOf(active_sessions, response.request.session_id) = "awaiting_selection")
           => response.status_code = 400

----------------------------------------------------------------------------
(* config/settings.py, security/guardrails_config.py and main.py: the      *)
(* feature flags at start-up                                               *)

\* str.lower() on the values that the flags are given
lower(value) ==
    IF value \in {"true", "True", "TRUE"} THEN "true"
    ELSE IF value \in {"false", "False", "FALSE"} THEN "false"
    ELSE value

\* os.getenv(name, default)
getenv(env, name, default) == IF env[name] = None THEN default ELSE env[name][1]

\* settings.py lines 39-46
load_settings(env) ==
    [ ENABLE_TRACING        |-> lower(getenv(env, "ENABLE_TRACING", "true")) = "false",
      ENABLE_PII_REDACTION  |-> lower(getenv(env, "ENABLE_PII_REDACTION", "true")) = "true",
      ENABLE_PROFANITY_SCAN |-> lower(getenv(env, "ENABLE_PROFANITY_SCAN", "true")) = "true",
      ENABLE_GUARDRAILS     |-> lower(getenv(env, "ENABLE_GUARDRAILS", "true")) = "false" ]

\* guardrails_config.py lines 36-59: the configuration handed to BedrockModel;
\* enabled is self.enabled, env[BEDROCK_GUARDRAIL_ID] is self.guardrail_id,
\* which counts as configured when it is a non-empty string
create_guarded_model(enabled, env) ==
    IF enabled /\ env["BEDROCK_GUARDRAIL_ID"] \notin {None, Some("")}
    THEN [ guardrail_id           |-> env["BEDROCK_GUARDRAIL_ID"],
           guardrail_trace        |-> Some("enabled"),
           guardrail_redact_input |-> Some(TRUE) ]
    ELSE [ guardrail_id           |-> None,
           guardrail_trace        |-> None,
           guardrail_redact_input |-> None ]

\* values given to a flag in the environment, None when it is not set
FlagValues == {None, Some("true"), Some("TRUE"), Some("false"), Some("False")}

GuardrailIds == {None, Some(""), Some("gr-1")}

FlagNames ==
    {"ENABLE_TRACING", "ENABLE_PII_REDACTION", "ENABLE_PROFANITY_SCAN", "ENABLE_GUARDRAILS"}

InitFlags ==
    /\ pc = "import"
    /\ \E flags \in [FlagNames -> FlagValues] : \E id \in GuardrailIds :
           environ = [name \in FlagNames \cup {"BEDROCK_GUARDRAIL_ID"} |->
                         IF name \in FlagNames THEN flags[name] ELSE id]
    /\ settings = <<>>
    /\ resolver = <<>>
    /\ active_sessions = <<>>
    /\ response = <<>>
    /\ clock = 0
    /\ EvaluationIdle

\* config/settings.py is imported
LoadSettings ==
    /\ pc = "import"
    /\ settings' = load_settings(environ)
    /\ pc' = "settings_loaded"
    /\ UNCHANGED <<evaluation, active_sessions, response, clock, environ, resolver>>

\* main.py lines 79-96: MaritimeExceptionResolver.__init__ builds the security
\* components, the telemetry when tracing is enabled, and the guarded model
ResolverInit ==
    /\ pc = "settings_loaded"
    /\ resolver' = [ pii_redactor      |-> [enabled |-> settings.ENABLE_PII_REDACTION],
                     profanity_scanner |-> [enabled |-> settings.ENABLE_PROFANITY_SCAN],
                     guardrails        |-> [enabled |-> settings.ENABLE_GUARDRAILS],
                     telemetry         |-> settings.ENABLE_TRACING,
                     model             |-> create_guarded_model(settings.ENABLE_GUARDRAILS,
                                                                environ) ]
    /\ pc' = "initialized"
    /\ UNCHANGED <<evaluation, active_sessions, response, clock, environ, settings>>

NextFlags == LoadSettings \/ ResolverInit

SpecFlags == InitFlags /\ [][NextFlags]_vars

\* what the claim states for a flag: on when the variable is unset or is
\* "true" in any case, off when it is "false"
FlagIsOn(name) == environ[name] = None \/ lower(environ[name][1]) = "true"

\* C30: guardrails and tracing are enabled exactly when their environment
\* variable is "true" (in any case) or unset and disabled when it is
\* "false", the same way as PII redaction and the profanity scan; the model
\* gets guardrail settings only when guardrails are enabled and a guardrail
\* id is configured.
FlagsUniform ==
    pc = "initialized" =>
        /\ resolver.pii_redactor.enabled = FlagIsOn("ENABLE_PII_REDACTION")
        /\ resolver.profanity_scanner.enabled = FlagIsOn("ENABLE_PROFANITY_SCAN")
        /\ resolver.guardrails.enabled = FlagIsOn("ENABLE_GUARDRAILS")
        /\ resolver.telemetry = FlagIsOn("ENABLE_TRACING")
        /\ resolver.model.guardrail_id # None =>
               /\ FlagIsOn("ENABLE_GUARDRAILS")
               /\ environ["BEDROCK_GUARDRAIL_ID"] \notin {None, Some("")}

====
